---- MODULE Spec2Model ----
(***************************************************************************)
(* Model of the graph-rag-news-explorer API service:                       *)
(*   - the relational store of app/db.py (documents, entities,             *)
(*     doc_entities) and its upsert helpers, run by concurrent workers;    *)
(*   - the graph query of app/db.py (expand_graph);                        *)
(*   - the graph builder of app/graph.py (build_graph).                    *)
(* Strings whose content matters (entity names, relation labels) are       *)
(* sequences of one-character strings, so that upper() and strip() are     *)
(* computed and not assumed.                                               *)
(***************************************************************************)
EXTENDS Integers, Sequences, FiniteSets, TLC

(***************************************************************************)
(* Bounds of the model.                                                    *)
(***************************************************************************)
\* Calls of the store helpers started in one run, over all workers.
MaxCalls == 4

\* Two ingestion workers (background tasks) share the store.
Workers == {1, 2}

(***************************************************************************)
(* Input domains.                                                          *)
(***************************************************************************)
None == "None"
NoId == 0
NoTime == 0

Urls == {"u1", "u2"}
Titles == {None, "T1"}
Sources == {None, "S1"}
Times == {NoTime, 1, 2}
Texts == {None, "X1"}
TextContents == {None, "Y1"}

\* Entity names: "a" and "A" differ only in letter case.
Names == {<<"a">>, <<"A">>, <<"b">>}
ETypes == {None, "ORG", "GPE"}

\* Relation labels handed to link_doc_entity.
MENTION == <<"M">>
DEFAULT_RELATION == <<"m", "e", "n", "t", "i", "o", "n", "s">>
Relations == {<<>>, <<" ">>, MENTION, <<" ", "M", " ">>}

\* Document and entity ids handed to link_doc_entity.
DocIdArgs == {1, 2}
EntIdArgs == {1, 2}

(***************************************************************************)
(* String helpers.                                                         *)
(***************************************************************************)
UpperChar(c) ==
    CASE c = "a" -> "A"
      [] c = "b" -> "B"
      [] c = "c" -> "C"
      [] c = "m" -> "M"
      [] OTHER -> c

\* str.upper()
Upper(s) == [i \in DOMAIN s |-> UpperChar(s[i])]

RECURSIVE LStrip(_)
LStrip(s) == IF s # <<>> /\ Head(s) = " " THEN LStrip(Tail(s)) ELSE s

RECURSIVE RStrip(_)
RStrip(s) ==
    IF s # <<>> /\ s[Len(s)] = " " THEN RStrip(SubSeq(s, 1, Len(s) - 1)) ELSE s

\* str.strip()
Strip(s) == RStrip(LStrip(s))

(***************************************************************************)
(* State.                                                                  *)
(***************************************************************************)
VARIABLES
    documents,      \* committed rows of table documents
    entities,       \* committed rows of table entities
    doc_entities,   \* committed rows of table doc_entities
    next_doc_id,    \* stands for uuid.uuid4(): a value never handed out before
    ent_seq,        \* serial sequence of entities.id
    link_seq,       \* serial sequence of doc_entities.id
    th,             \* per worker: position, arguments, locals, result
    sess_new,       \* per worker: entity rows inserted in its open transaction
    sess_upd,       \* per worker: type updates made in its open transaction
    ncalls          \* helper calls started so far

\* build_graph: its inputs and its result
VARIABLES
    corpus,         \* what the data layer returns: docs and entities per doc
    cfg,            \* MAX_NODES, MAX_EDGES, RELATED_DOC_MIN_SHARED
    graph           \* the GraphResponse of the last build_graph call

\* expand_graph: the (nodes, edges) it returned
VARIABLES expanded

\* crawler: the call in progress, its locals and what it returned
VARIABLES crawl

\* ingestion jobs and their status records
VARIABLES
    use_redis,      \* _redis is set: REDIS_URL given and redis.from_url succeeded
    redis_ok,       \* the Redis server answers at the moment
    redis_jobs,     \* the keys jobs:<id> of Redis
    memory_jobs,    \* _memory_jobs
    job,            \* per job id: the request and the position of its worker
    reply,          \* per job id: the last answer of GET /jobs/{id}
    gone            \* per job id: a record of it expired or was flushed

jobvars == <<use_redis, redis_ok, redis_jobs, memory_jobs, job, reply, gone>>

\* the ingestion pipeline: one call of each function, its locals and result
VARIABLES
    hydration,      \* hydrate_items_with_text
    ingest,         \* _ingest_single
    scored          \* _score_entity_for_doc and the label of the edge

pipevars == <<hydration, ingest, scored>>

svcvars == <<crawl, jobvars, pipevars>>

\* Everything outside the store.
gvars == <<corpus, cfg, graph, expanded, svcvars>>

dbvars == <<documents, entities, doc_entities, next_doc_id, ent_seq, link_seq,
            th, sess_new, sess_upd, ncalls>>



NoArgs == [url |-> None, name |-> <<>>, doc_id |-> NoId, ent_id |-> NoId, rel |-> <<>>]

IdleThread ==
    [pc |-> "idle", op |-> None, args |-> NoArgs, found |-> NoId,
     found_type |-> None, ret |-> NoId, err |-> None]

DbInit ==
    /\ documents = {}
    /\ entities = {}
    /\ doc_entities = {}
    /\ next_doc_id = 1
    /\ ent_seq = 1
    /\ link_seq = 1
    /\ th = [t \in Workers |-> IdleThread]
    /\ sess_new = [t \in Workers |-> {}]
    /\ sess_upd = [t \in Workers |-> {}]
    /\ ncalls = 0

\* A worker between two helper calls, with no session open.
CanCall(t) == th[t].pc \in {"idle", "done"}

StartCall(t, pc, op, args) ==
    [pc |-> pc, op |-> op, args |-> args, found |-> NoId, found_type |-> None,
     ret |-> NoId, err |-> None]

\* The call returns ret or raises err; its arguments and locals are gone.
Finish(t, ret, err) ==
    [pc |-> "done", op |-> th[t].op, args |-> NoArgs, found |-> NoId,
     found_type |-> None, ret |-> ret, err |-> err]

(***************************************************************************)
(* upsert_document                                                         *)
(***************************************************************************)
\* body_text = text if text is not None else text_content
BodyText(text, text_content) == IF text # None THEN text ELSE text_content

\* The keyword arguments of a call other than url. They are first read in the
\* second half of the function, where the model draws them.
DocumentArgs ==
    {[title |-> ti, source |-> so, published_at |-> pa, body_text |-> BodyText(tx, tc)] :
        ti \in Titles, so \in Sources, pa \in Times, tx \in Texts, tc \in TextContents}

\* The calls drawn where the store as a whole is explored: the publish time
\* varies, the other fields are fixed.
TimedDocumentArgs ==
    {a \in DocumentArgs : a.title = "T1" /\ a.source = None /\ a.body_text = None}

\* A worker enters upsert_document(url=u, ...).
CallUpsertDocument(t) ==
    /\ CanCall(t)
    /\ ncalls < MaxCalls
    /\ \E u \in Urls :
          th' = [th EXCEPT ![t] =
                    StartCall(t, "ud_select", "upsert_document", [NoArgs EXCEPT !.url = u])]
    /\ ncalls' = ncalls + 1
    /\ UNCHANGED <<documents, entities, doc_entities, next_doc_id, ent_seq,
                   link_seq, sess_new, sess_upd, gvars>>

\* A lookup on the wrong column, which misses the stored row.
SelectDocumentByTitle(url) == {d \in documents : d.title = url}

\* select(Document).where(Document.url == url)
SelectDocumentByUrl(url) == {d \in documents : d.url = url}

\* doc = s.scalars(...).first()
UpsertDocumentSelect(t) ==
    /\ th[t].pc = "ud_select"
    /\ LET rows == SelectDocumentByUrl(th[t].args.url) IN
          \/ /\ rows = {}
             /\ th' = [th EXCEPT ![t].pc = "ud_write", ![t].found = NoId]
          \/ \E d \in rows :
                th' = [th EXCEPT ![t].pc = "ud_write", ![t].found = d.id]
    /\ UNCHANGED <<documents, entities, doc_entities, next_doc_id, ent_seq,
                   link_seq, sess_new, sess_upd, ncalls, gvars>>

\* The loaded row after the assignments of the update branch.
UpdatedDocument(d, a) ==
    [d EXCEPT !.title = IF a.title # None THEN a.title ELSE @,
              !.source = IF a.source # None THEN a.source ELSE @,
              !.published_at = IF a.published_at # NoTime THEN a.published_at ELSE @,
              !.text = IF a.body_text # None THEN a.body_text ELSE @]

\* Document(id=new_id, url=url, title=title, ...)
NewDocument(id, url, a) ==
    [id |-> id, url |-> url, title |-> a.title, source |-> a.source,
     published_at |-> a.published_at, text |-> a.body_text]

\* documents.url is declared unique=True: an INSERT of a taken url is refused.
DocumentUrlTaken(url) == \E d \in documents : d.url = url

\* Second half of upsert_document: the update branch or the insert branch, each
\* ended by s.commit(). A refused INSERT raises IntegrityError out of the call.
UpsertDocumentWrite(t, Args) ==
    /\ th[t].pc = "ud_write"
    /\ \E a \in Args :
          IF th[t].found # NoId
          THEN /\ documents' = {IF d.id = th[t].found THEN UpdatedDocument(d, a) ELSE d
                                  : d \in documents}
               /\ th' = [th EXCEPT ![t] = Finish(t, th[t].found, None)]
               /\ UNCHANGED next_doc_id
          ELSE /\ next_doc_id' = next_doc_id + 1
               /\ IF DocumentUrlTaken(th[t].args.url)
                  THEN /\ th' = [th EXCEPT ![t] = Finish(t, NoId, "IntegrityError")]
                       /\ UNCHANGED documents
                  ELSE /\ documents' = documents \cup
                                         {NewDocument(next_doc_id, th[t].args.url, a)}
                       /\ th' = [th EXCEPT ![t] = Finish(t, next_doc_id, None)]
    /\ UNCHANGED <<entities, doc_entities, ent_seq, link_seq, sess_new, sess_upd,
                   ncalls, gvars>>

(***************************************************************************)
(* upsert_entity, run inside the caller's session                          *)
(***************************************************************************)
\* The entities table as worker t's open transaction sees it: the committed
\* rows with its own updates applied, and the rows it inserted itself.
AppliedUpdates(rows, upd) ==
    {IF \E u \in upd : u.id = e.id
        THEN [e EXCEPT !.type = (CHOOSE u \in upd : u.id = e.id).type]
        ELSE e : e \in rows}

VisibleEntities(t) == AppliedUpdates(entities, sess_upd[t]) \cup sess_new[t]

\* select(Entity).where(Entity.name == name)
SelectEntityByName(t, name) == {e \in VisibleEntities(t) : e.name = name}

\* A worker calls upsert_entity(s, name, etype); the first call of a session
\* follows "with SessionLocal() as s".
CallUpsertEntity(t) ==
    /\ CanCall(t) \/ th[t].pc = "in_session"
    /\ ncalls < MaxCalls
    /\ \E n \in Names :
          th' = [th EXCEPT ![t] =
                    StartCall(t, "ue_select", "upsert_entity", [NoArgs EXCEPT !.name = n])]
    /\ ncalls' = ncalls + 1
    /\ UNCHANGED <<documents, entities, doc_entities, next_doc_id, ent_seq,
                   link_seq, sess_new, sess_upd, gvars>>

\* row = s.execute(select(Entity)...).scalar_one_or_none()
UpsertEntitySelect(t) ==
    /\ th[t].pc = "ue_select"
    /\ LET rows == SelectEntityByName(t, th[t].args.name) IN
          \/ /\ rows = {}
             /\ th' = [th EXCEPT ![t].pc = "ue_write", ![t].found = NoId]
          \/ \E e \in rows :
                th' = [th EXCEPT ![t].pc = "ue_write", ![t].found = e.id,
                                 ![t].found_type = e.type]
    /\ UNCHANGED <<documents, entities, doc_entities, next_doc_id, ent_seq,
                   link_seq, sess_new, sess_upd, ncalls, gvars>>

\* "if etype": None and the empty string are falsy.
Truthy(etype) == etype # None /\ etype # ""

\* uq_entities_name against committed rows.
EntityNameTaken(name) == \E e \in entities : e.name = name

\* Worker t's next statement has to wait for worker o's open transaction: an
\* INSERT of a name o has inserted, or an UPDATE of a row o has updated.
WaitsFor(t, o) ==
    /\ o # t
    /\ th[t].pc = "ue_write"
    /\ IF th[t].found = NoId
       THEN \E e \in sess_new[o] : e.name = th[t].args.name
       ELSE \E u \in sess_upd[o] : u.id = th[t].found

\* The session is closed without commit: its transaction is rolled back.
Rollback(t) ==
    /\ sess_new' = [sess_new EXCEPT ![t] = {}]
    /\ sess_upd' = [sess_upd EXCEPT ![t] = {}]

\* Second half of upsert_entity: refresh the type of the row found, or INSERT
\* ... RETURNING id. A refused INSERT raises IntegrityError through the
\* caller, whose "with" block closes the session.
UpsertEntityWrite(t) ==
    /\ th[t].pc = "ue_write"
    /\ \A o \in Workers : ~WaitsFor(t, o)
    /\ \E etype \in ETypes :
          IF th[t].found # NoId
          THEN /\ IF Truthy(etype) /\ th[t].found_type # etype
                  THEN IF \E e \in sess_new[t] : e.id = th[t].found
                       THEN /\ sess_new' = [sess_new EXCEPT ![t] =
                                   {IF e.id = th[t].found THEN [e EXCEPT !.type = etype]
                                    ELSE e : e \in @}]
                            /\ UNCHANGED sess_upd
                       ELSE /\ sess_upd' = [sess_upd EXCEPT ![t] =
                                   {u \in @ : u.id # th[t].found}
                                   \cup {[id |-> th[t].found, type |-> etype]}]
                            /\ UNCHANGED sess_new
                  ELSE UNCHANGED <<sess_new, sess_upd>>
               /\ th' = [th EXCEPT ![t] = [Finish(t, th[t].found, None) EXCEPT !.pc = "in_session"]]
               /\ UNCHANGED ent_seq
          ELSE /\ ent_seq' = ent_seq + 1
               /\ IF EntityNameTaken(th[t].args.name)
                  THEN /\ th' = [th EXCEPT ![t] = Finish(t, NoId, "IntegrityError")]
                       /\ Rollback(t)
                  ELSE /\ sess_new' = [sess_new EXCEPT ![t] = @ \cup
                              {[id |-> ent_seq, name |-> th[t].args.name, type |-> etype]}]
                       /\ th' = [th EXCEPT ![t] = [Finish(t, ent_seq, None) EXCEPT !.pc = "in_session"]]
                       /\ UNCHANGED sess_upd
    /\ UNCHANGED <<documents, entities, doc_entities, next_doc_id, link_seq, ncalls, gvars>>

\* s.commit() of the caller's session.
SessionCommit(t) ==
    /\ th[t].pc = "in_session"
    /\ entities' = AppliedUpdates(entities, sess_upd[t]) \cup sess_new[t]
    /\ Rollback(t)
    /\ th' = [th EXCEPT ![t] = Finish(t, th[t].ret, None)]
    /\ UNCHANGED <<documents, doc_entities, next_doc_id, ent_seq, link_seq, ncalls, gvars>>

\* Two transactions wait for each other: the database aborts one of them with
\* a deadlock error, which the caller's "with" block turns into a rollback.
DeadlockAbort(t) ==
    /\ \E o \in Workers : WaitsFor(t, o) /\ WaitsFor(o, t)
    /\ th' = [th EXCEPT ![t] = Finish(t, NoId, "OperationalError")]
    /\ Rollback(t)
    /\ UNCHANGED <<documents, entities, doc_entities, next_doc_id, ent_seq,
                   link_seq, ncalls, gvars>>

(***************************************************************************)
(* link_doc_entity                                                         *)
(***************************************************************************)
\* rel = (relation or "").strip() or "mentions"
NormalizeRelation(relation) ==
    IF Strip(relation) # <<>> THEN Strip(relation) ELSE DEFAULT_RELATION

\* A worker enters link_doc_entity(doc_id=..., ent_id=..., relation=...).
CallLinkDocEntity(t) ==
    /\ CanCall(t)
    /\ ncalls < MaxCalls
    /\ \E d \in DocIdArgs, e \in EntIdArgs, r \in Relations :
          th' = [th EXCEPT ![t] =
                    StartCall(t, "lk_select", "link_doc_entity",
                              [NoArgs EXCEPT !.doc_id = d, !.ent_id = e,
                                             !.rel = NormalizeRelation(r)])]
    /\ ncalls' = ncalls + 1
    /\ UNCHANGED <<documents, entities, doc_entities, next_doc_id, ent_seq,
                   link_seq, sess_new, sess_upd, gvars>>

\* A lookup with the relation test inverted, which misses the stored link.
SelectLinkOtherRelation(doc_id, ent_id, rel) ==
    {l \in doc_entities : l.doc_id = doc_id /\ l.ent_id = ent_id /\ l.relation # rel}

\* select(DocEntity).where(doc_id == ..., ent_id == ..., relation == rel)
SelectLink(doc_id, ent_id, rel) ==
    {l \in doc_entities : l.doc_id = doc_id /\ l.ent_id = ent_id /\ l.relation = rel}

\* exists = s.scalars(...).first()
LinkDocEntitySelect(t) ==
    /\ th[t].pc = "lk_select"
    /\ LET a == th[t].args
           rows == SelectLink(a.doc_id, a.ent_id, a.rel) IN
          \/ /\ rows = {}
             /\ th' = [th EXCEPT ![t].pc = "lk_write", ![t].found = NoId]
          \/ \E l \in rows :
                th' = [th EXCEPT ![t].pc = "lk_write", ![t].found = l.id]
    /\ UNCHANGED <<documents, entities, doc_entities, next_doc_id, ent_seq,
                   link_seq, sess_new, sess_upd, ncalls, gvars>>

\* The constraints of doc_entities: both foreign keys and uq_doc_ent_rel.
LinkRefused(doc_id, ent_id, rel) ==
    \/ ~ \E d \in documents : d.id = doc_id
    \/ ~ \E e \in entities : e.id = ent_id
    \/ \E l \in doc_entities :
          l.doc_id = doc_id /\ l.ent_id = ent_id /\ l.relation = rel

\* Second half of link_doc_entity: return if the link exists, else add the row
\* and commit. A refused INSERT raises IntegrityError out of the call.
LinkDocEntityWrite(t) ==
    /\ th[t].pc = "lk_write"
    /\ LET a == th[t].args IN
          IF th[t].found # NoId
          THEN /\ th' = [th EXCEPT ![t] = Finish(t, NoId, None)]
               /\ UNCHANGED <<doc_entities, link_seq>>
          ELSE /\ link_seq' = link_seq + 1
               /\ IF LinkRefused(a.doc_id, a.ent_id, a.rel)
                  THEN /\ th' = [th EXCEPT ![t] = Finish(t, NoId, "IntegrityError")]
                       /\ UNCHANGED doc_entities
                  ELSE /\ doc_entities' = doc_entities \cup
                             {[id |-> link_seq, doc_id |-> a.doc_id, ent_id |-> a.ent_id,
                               relation |-> a.rel]}
                       /\ th' = [th EXCEPT ![t] = Finish(t, NoId, None)]
    /\ UNCHANGED <<documents, entities, next_doc_id, ent_seq, sess_new, sess_upd,
                   ncalls, gvars>>

(***************************************************************************)
(* build_graph (app/graph.py)                                              *)
(*                                                                         *)
(* The data layer (list_recent_documents, list_entities_for_doc) is an     *)
(* interface: its answers are the input corpus. The caps and the other     *)
(* settings are imported from the configuration and are inputs as well.    *)
(* Scores are kept in tenths. Document ids are integers, ordered as the    *)
(* id strings are.                                                         *)
(***************************************************************************)
\* Entity entries in a corpus and the largest cap explored.
MaxEnts == 3
MaxCap == 2

TITLE_LABEL_LEN == 60
ELLIPSIS == "..."

ShortTitle == <<"t">>
LongTitle == [i \in 1..(TITLE_LABEL_LEN + 1) |-> "x"]

\* Node ids: f"doc:{doc_id}" and f"ent:{NAME}".
DocNodeId(doc_id) == [kind |-> "doc", doc |-> doc_id, name |-> <<>>]
EntNodeId(name) == [kind |-> "ent", doc |-> NoId, name |-> name]
NoNodeId == [kind |-> None, doc |-> NoId, name |-> <<>>]

\* Answers of list_recent_documents: the rows below, in any order.
GraphDocs == {[doc_id |-> 1, title |-> ShortTitle], [doc_id |-> 2, title |-> LongTitle]}

\* Answers of list_entities_for_doc: entries drawn from this pool.
EntityPool ==
    { [id |-> NoNodeId, name |-> <<"a">>, type |-> "ORG", count |-> 5, in_title |-> FALSE],
      [id |-> NoNodeId, name |-> <<"A">>, type |-> "org", count |-> 1, in_title |-> FALSE],
      [id |-> NoNodeId, name |-> <<" ", "b">>, type |-> "person", count |-> 0 - 1, in_title |-> TRUE],
      [id |-> EntNodeId(<<"X">>), name |-> <<"b">>, type |-> "", count |-> 9, in_title |-> FALSE],
      [id |-> NoNodeId, name |-> <<"c">>, type |-> "ORG", count |-> 1, in_title |-> TRUE],
      [id |-> NoNodeId, name |-> <<" ">>, type |-> "GPE", count |-> 1, in_title |-> TRUE] }

\* Settings that app/config.py is expected to provide.
ENTITY_BLACKLIST == {<<"C">>}
PREFERRED_ENTITY_TYPES == {"ORG", "PRODUCT", "GPE"}

UpperType(ty) ==
    CASE ty = "org" -> "ORG"
      [] ty = "person" -> "PERSON"
      [] OTHER -> ty

\* No call yet; before holds the locals of build_graph as step 5 begins.
NoGraph ==
    [built |-> FALSE, nodes |-> <<>>, edges |-> <<>>,
     before |-> [nodes |-> <<>>, edges |-> <<>>, counted |-> <<>>, per_doc |-> <<>>]]

MAX_NODES == cfg.MAX_NODES
MAX_EDGES == cfg.MAX_EDGES
RELATED_DOC_MIN_SHARED == cfg.RELATED_DOC_MIN_SHARED

\* ---- sequence helpers ----
Min2(a, b) == IF a <= b THEN a ELSE b
Max2(a, b) == IF a >= b THEN a ELSE b

\* s[:n]
Take(s, n) == SubSeq(s, 1, Min2(Len(s), Max2(n, 0)))

SeqRange(s) == {s[i] : i \in DOMAIN s}

RECURSIVE ConcatAll(_)
ConcatAll(ss) == IF ss = <<>> THEN <<>> ELSE Head(ss) \o ConcatAll(Tail(ss))

\* Stable descending sort of a sequence of [k, v] records by k.
RECURSIVE SortKeyed(_)
SortKeyed(s) ==
    IF s = <<>> THEN <<>>
    ELSE LET rest == SortKeyed(SubSeq(s, 1, Len(s) - 1))
             x == s[Len(s)]
             before == SelectSeq(rest, LAMBDA y : y.k >= x.k)
             after == SelectSeq(rest, LAMBDA y : y.k < x.k)
         IN  \* the last element goes behind the elements of equal key
             before \o <<x>> \o after

\* sorted(s, key=Key, reverse=True): descending by key, equal keys keep their order.
SortedDesc(s, Key(_)) ==
    LET keyed == SortKeyed([i \in DOMAIN s |-> [k |-> Key(s[i]), v |-> s[i]]])
    IN  [i \in DOMAIN keyed |-> keyed[i].v]

\* The distinct elements of s, each at its first position (dict key order).
RECURSIVE Dedup(_)
Dedup(s) ==
    IF s = <<>> THEN <<>>
    ELSE LET front == Dedup(SubSeq(s, 1, Len(s) - 1))
         IN  IF s[Len(s)] \in SeqRange(front) THEN front ELSE Append(front, s[Len(s)])

\* Number of positions of s that hold x.
Occurrences(s, x) == Cardinality({i \in DOMAIN s : s[i] = x})

\* A test against the blacklist without upper-casing.
IsBlacklistedAsWritten(name) == name \in ENTITY_BLACKLIST

\* ---- core logic ----
_is_blacklisted(name) == Upper(name) \in ENTITY_BLACKLIST

\* A score that gives the title half a point only.
ScoreTitleHalf(ent) ==
    (IF ent.in_title THEN 5 ELSE 0)
    + (IF UpperType(ent.type) \in PREFERRED_ENTITY_TYPES THEN 5 ELSE 0)
    + Min2(Max2(0, ent.count), 7)

_score_entity_for_doc(ent) ==
    (IF ent.in_title THEN 10 ELSE 0)
    + (IF UpperType(ent.type) \in PREFERRED_ENTITY_TYPES THEN 5 ELSE 0)
    + Min2(Max2(0, ent.count), 7)

\* Step 2 for one entry: the cleaned entity, or nothing when it is skipped.
CleanEntity(e) ==
    LET name == Strip(e.name) IN
    IF name = <<>> \/ _is_blacklisted(name) THEN <<>>
    ELSE << [id |-> IF e.id # NoNodeId THEN e.id ELSE EntNodeId(Upper(name)),
             name |-> name, type |-> UpperType(e.type), count |-> e.count,
             in_title |-> e.in_title] >>

\* Step 2: the doc_entities dict, as one cleaned list per position of docs.
DocEntities(c) ==
    [i \in DOMAIN c.docs |->
        LET raw == c.ents[c.docs[i].doc_id]
        IN  ConcatAll([j \in DOMAIN raw |-> CleanEntity(raw[j])])]

\* The upper-cased names counted into all_entity_names, one per kept entry.
CountedNames(per_doc) ==
    ConcatAll([i \in DOMAIN per_doc |->
        [j \in DOMAIN per_doc[i] |-> Upper(per_doc[i][j].name)]])

\* all_entity_names.get(key, 0)
all_entity_names(counted, key) == Occurrences(counted, key)

\* label of a doc node
DocLabel(title) ==
    Take(title, TITLE_LABEL_LEN) \o (IF Len(title) > TITLE_LABEL_LEN THEN <<ELLIPSIS>> ELSE <<>>)

DocNode(d) == [id |-> DocNodeId(d.doc_id), label |-> DocLabel(d.title), type |-> "doc"]

\* (doc id, entity) for every iteration of the edge loop, in order: per
\* document its entities ranked by score.
RankedPairs(docs, per_doc) ==
    ConcatAll([i \in DOMAIN docs |->
        LET ranked == SortedDesc(per_doc[i], _score_entity_for_doc)
        IN  [j \in DOMAIN ranked |-> [doc |-> docs[i].doc_id, ent |-> ranked[j]]]])

\* The nodes dict, as the sequence of its values in key order: a store under
\* a key already present replaces the value in place.
RECURSIVE PutDocNodes(_, _)
PutDocNodes(nodes, docs) ==
    IF docs = <<>> THEN nodes
    ELSE LET n == DocNode(Head(docs)) IN
         IF \E k \in DOMAIN nodes : nodes[k].id = n.id
         THEN PutDocNodes([k \in DOMAIN nodes |-> IF nodes[k].id = n.id THEN n ELSE nodes[k]],
                          Tail(docs))
         ELSE PutDocNodes(Append(nodes, n), Tail(docs))

\* "if eid not in nodes: nodes[eid] = GraphNode(...)" over the edge loop.
RECURSIVE AddEntityNodes(_, _)
AddEntityNodes(nodes, pairs) ==
    IF pairs = <<>> THEN nodes
    ELSE LET ent == Head(pairs).ent IN
         IF \E k \in DOMAIN nodes : nodes[k].id = ent.id
         THEN AddEntityNodes(nodes, Tail(pairs))
         ELSE AddEntityNodes(
                 Append(nodes, [id |-> ent.id, label |-> ent.name, type |-> "entity"]),
                 Tail(pairs))

\* A label that looks at the title and the count only.
EdgeLabelAnyType(ent) == IF ent.in_title \/ ent.count >= 5 THEN "about" ELSE "mentions"

\* A label that asks for more than 1.0.
EdgeLabelAbove(ent) == IF _score_entity_for_doc(ent) > 10 THEN "about" ELSE "mentions"

EdgeLabel(ent) == IF _score_entity_for_doc(ent) >= 10 THEN "about" ELSE "mentions"

DocEntityEdges(pairs) ==
    [k \in DOMAIN pairs |->
        [source |-> DocNodeId(pairs[k].doc), target |-> pairs[k].ent.id,
         label |-> EdgeLabel(pairs[k].ent)]]

\* ---- _score_entity_for_doc and the edge label on their own ----
\* Mention counts run from -MaxScoreCount to MaxScoreCount.
MaxScoreCount == 9

ScoreTypes == {"", "org", "ORG", "GPE", "person", "PERSON"}

\* The entries of list_entities_for_doc that matter to the score.
ScoreEntries ==
    [in_title : BOOLEAN, type : ScoreTypes, count : (0 - MaxScoreCount)..MaxScoreCount]

\* The dict that step 2 of build_graph appends for an entry: the type is
\* upper-cased, the count is int(count).
ScoredEntity(e) == [in_title |-> e.in_title, type |-> UpperType(e.type), count |-> e.count]

\* score = _score_entity_for_doc(ent) on the entry as given, and the label
\* that step 3 of build_graph puts on the edge of its cleaned dict.
ScoreEntity ==
    /\ \E e \in ScoreEntries :
          scored' = [pc |-> "scored", ent |-> e,
                     score |-> _score_entity_for_doc(e),
                     label |-> EdgeLabel(ScoredEntity(e))]
    /\ UNCHANGED <<corpus, cfg, graph, expanded, crawl, jobvars, hydration, ingest, dbvars>>

\* (entity id, doc id) for every append to ent_to_docs, in order.
Postings(docs, per_doc) ==
    ConcatAll([i \in DOMAIN docs |->
        [j \in DOMAIN per_doc[i] |->
            [ent |-> per_doc[i][j].id, doc |-> docs[i].doc_id]]])

\* ent_to_docs[ent_id]
EntToDocs(postings, ent_id) ==
    LET ps == SelectSeq(postings, LAMBDA p : p.ent = ent_id)
    IN  [k \in DOMAIN ps |-> ps[k].doc]

\* The pair key built from dlist[i], dlist[j].
PairKey(a, b) == IF a > b THEN <<b, a>> ELSE <<a, b>>

\* Every increment of doc_to_shared_counts for one dlist, in order.
RECURSIVE PairsFrom(_, _, _)
PairsFrom(dlist, i, j) ==
    IF i > Len(dlist) THEN <<>>
    ELSE IF j > Len(dlist) THEN PairsFrom(dlist, i + 1, i + 2)
    ELSE <<PairKey(dlist[i], dlist[j])>> \o PairsFrom(dlist, i, j + 1)

\* Every increment of doc_to_shared_counts, in order.
SharedIncrements(postings) ==
    LET keys == Dedup([k \in DOMAIN postings |-> postings[k].ent])
    IN  ConcatAll([k \in DOMAIN keys |->
            LET dlist == EntToDocs(postings, keys[k])
            IN  IF Len(dlist) < 2 THEN <<>> ELSE PairsFrom(dlist, 1, 2)])

RelatedEdges(postings) ==
    LET incs == SharedIncrements(postings)
        keys == Dedup(incs)
        hit == SelectSeq(keys, LAMBDA k : Occurrences(incs, k) >= RELATED_DOC_MIN_SHARED)
    IN  [k \in DOMAIN hit |->
            [source |-> DocNodeId(hit[k][1]), target |-> DocNodeId(hit[k][2]),
             label |-> "related"]]

\* A node trim that ranks every node by frequency, documents included.
TrimNodesAnyType(counted, nodes) ==
    IF Len(nodes) > MAX_NODES
    THEN Take(SortedDesc(nodes, LAMBDA n : all_entity_names(counted, Upper(n.label))),
              MAX_NODES)
    ELSE nodes

\* A node trim that keeps the entity nodes first added.
TrimNodesFirstAdded(counted, nodes) ==
    IF Len(nodes) > MAX_NODES
    THEN LET doc_nodes == SelectSeq(nodes, LAMBDA n : n.type = "doc")
             ent_nodes == SelectSeq(nodes, LAMBDA n : n.type = "entity")
             keep_count == Max2(0, MAX_NODES - Len(doc_nodes))
         IN  doc_nodes \o Take(ent_nodes, keep_count)
    ELSE nodes

\* Step 5, first half: the nodes kept.
TrimNodes(counted, nodes) ==
    IF Len(nodes) > MAX_NODES
    THEN LET doc_nodes == SelectSeq(nodes, LAMBDA n : n.type = "doc")
             ent_nodes == SortedDesc(SelectSeq(nodes, LAMBDA n : n.type = "entity"),
                                     LAMBDA n : all_entity_names(counted, Upper(n.label)))
             keep_count == Max2(0, MAX_NODES - Len(doc_nodes))
         IN  doc_nodes \o Take(ent_nodes, keep_count)
    ELSE nodes

NodeIds(nodes) == {nodes[k].id : k \in DOMAIN nodes}

\* An edge filter that tests the source only.
KeepEdgesBySource(nodes, kept, edges) ==
    IF Len(nodes) > MAX_NODES
    THEN LET kept_ids == NodeIds(kept)
         IN  SelectSeq(edges, LAMBDA e : e.source \in kept_ids)
    ELSE edges

\* Step 5, first half: the edges between kept nodes.
KeepEdges(nodes, kept, edges) ==
    IF Len(nodes) > MAX_NODES
    THEN LET kept_ids == NodeIds(kept)
         IN  SelectSeq(edges, LAMBDA e : e.source \in kept_ids /\ e.target \in kept_ids)
    ELSE edges

\* An edge trim that keeps every about/related edge.
TrimEdgesKeepAbout(edges) ==
    IF Len(edges) > MAX_EDGES
    THEN LET about_related == SelectSeq(edges, LAMBDA e : e.label \in {"about", "related"})
             mentions == SelectSeq(edges, LAMBDA e : e.label = "mentions")
         IN  about_related \o Take(mentions, MAX_EDGES - Len(about_related))
    ELSE edges

\* An edge trim that keeps the first MAX_EDGES edges as they come.
TrimEdgesInOrder(edges) == IF Len(edges) > MAX_EDGES THEN Take(edges, MAX_EDGES) ELSE edges

\* Step 5, second half.
TrimEdges(edges) ==
    IF Len(edges) > MAX_EDGES
    THEN LET about_related == SelectSeq(edges, LAMBDA e : e.label \in {"about", "related"})
             mentions == SelectSeq(edges, LAMBDA e : e.label = "mentions")
         IN  IF Len(about_related) >= MAX_EDGES
             THEN Take(about_related, MAX_EDGES)
             ELSE about_related \o Take(mentions, MAX_EDGES - Len(about_related))
    ELSE edges

\* The nodes and edges before step 5.
Untrimmed(c) ==
    LET per_doc == DocEntities(c)
        pairs == RankedPairs(c.docs, per_doc)
    IN  [nodes |-> AddEntityNodes(PutDocNodes(<<>>, c.docs), pairs),
         edges |-> DocEntityEdges(pairs)
                     \o RelatedEdges(Postings(c.docs, per_doc)),
         counted |-> CountedNames(per_doc),
         per_doc |-> per_doc]

build_graph(c) ==
    LET u == Untrimmed(c)
        kept == TrimNodes(u.counted, u.nodes)
        edges == KeepEdges(u.nodes, kept, u.edges)
    IN  [built |-> TRUE, nodes |-> kept, edges |-> TrimEdges(edges), before |-> u]

\* ---- inputs ----
RECURSIVE SeqsUpTo(_, _)
SeqsUpTo(S, n) ==
    IF n = 0 THEN {<<>>}
    ELSE LET shorter == SeqsUpTo(S, n - 1)
         IN  shorter \cup {Append(q, x) : q \in shorter, x \in S}

\* The rows of GraphDocs in every order, without repetition.
DocLists ==
    {q \in SeqsUpTo(GraphDocs, Cardinality(GraphDocs)) :
        \A i, j \in DOMAIN q : i # j => q[i] # q[j]}

\* One list of entries per position of ds, at most n entries in all.
RECURSIVE EntriesOf(_, _)
EntriesOf(ds, n) ==
    IF ds = <<>> THEN {<<>>}
    ELSE UNION {{<<q>> \o rest : rest \in EntriesOf(Tail(ds), n - Len(q))} :
                   q \in SeqsUpTo(EntityPool, n)}

\* The answers of the data layer: the listed documents and, for each listed
\* document, its entries (the other documents are never asked for).
CorporaUpTo(n) ==
    UNION {{[docs |-> ds,
             ents |-> [d \in {x.doc_id : x \in GraphDocs} |->
                         IF \E i \in DOMAIN ds : ds[i].doc_id = d
                         THEN per[CHOOSE i \in DOMAIN ds : ds[i].doc_id = d]
                         ELSE <<>>]] :
               per \in EntriesOf(ds, n)} :
              ds \in DocLists}

Corpora == CorporaUpTo(MaxEnts)

Configs ==
    [MAX_NODES : 1..MaxCap, MAX_EDGES : 1..MaxCap, RELATED_DOC_MIN_SHARED : 1..2]

GraphInit ==
    /\ corpus \in Corpora
    /\ cfg \in Configs
    /\ graph = NoGraph
    /\ expanded = NoGraph

GraphIdle ==
    /\ corpus = [docs |-> <<>>, ents |-> [d \in {x.doc_id : x \in GraphDocs} |-> <<>>]]
    /\ cfg = [MAX_NODES |-> MaxCap, MAX_EDGES |-> MaxCap, RELATED_DOC_MIN_SHARED |-> 1]
    /\ graph = NoGraph
    /\ expanded = NoGraph

\* One call of build_graph on the corpus.
BuildGraph ==
    /\ ~graph.built
    /\ graph' = build_graph(corpus)
    /\ UNCHANGED <<corpus, cfg, expanded, svcvars, dbvars>>

(***************************************************************************)
(* expand_graph (app/db.py), the query behind POST /graph/expand           *)
(*                                                                         *)
(* The three SELECTs carry LIMIT 200, 300 and 3000. The stores explored    *)
(* hold a handful of rows, so the limits are scaled down with them; what   *)
(* is kept is that each SELECT is cut on its own.                          *)
(***************************************************************************)
DOC_LIMIT == 1
ENT_LIMIT == 2
PAIR_LIMIT == 2

\* The window starts at since = utcnow() - timedelta(days=window_days).
Sinces == Times \ {NoTime}

\* published_at IS NOT NULL AND published_at >= since
InWindow(d, since) == d.published_at # NoTime /\ d.published_at >= since

\* Every order of the rows of S.
Orders(S) ==
    {q \in SeqsUpTo(S, Cardinality(S)) :
        Len(q) = Cardinality(S) /\ \A i, j \in DOMAIN q : i # j => q[i] # q[j]}

\* ORDER BY key DESC: rows of equal key come in an order the database picks.
OrdersDesc(S, Key(_)) ==
    {q \in Orders(S) : \A i, j \in DOMAIN q : i < j => Key(q[i]) >= Key(q[j])}

\* A documents query without ORDER BY.
RecentDocumentsUnordered(since) ==
    {Take(q, DOC_LIMIT) : q \in Orders({d \in documents : InWindow(d, since)})}

\* The answers the documents query can give.
RecentDocuments(since) ==
    {Take(q, DOC_LIMIT) :
        q \in OrdersDesc({d \in documents : InWindow(d, since)},
                         LAMBDA d : d.published_at)}

\* The rows of doc_entities joined to a document inside the window.
WindowLinks(since) ==
    {l \in doc_entities : \E d \in documents : d.id = l.doc_id /\ InWindow(d, since)}

\* func.count(DocEntity.id) of one entity group.
MentionCount(e, since) == Cardinality({l \in WindowLinks(since) : l.ent_id = e.id})

\* The answers the entities query can give.
TopEntities(since) ==
    {Take(q, ENT_LIMIT) :
        q \in OrdersDesc({e \in entities : MentionCount(e, since) > 0},
                         LAMBDA e : MentionCount(e, since))}

\* The answers the pairs query can give: it has no ORDER BY.
LinkPairs(since) ==
    {Take(q, PAIR_LIMIT) : q \in Orders(WindowLinks(since))}

\* (d.title or d.url)[:40]; the titles and urls explored are shorter than 40.
ExpandDocLabel(d) == IF d.title # None THEN d.title ELSE d.url

ExpandDocNode(d) == [id |-> DocNodeId(d.id), label |-> ExpandDocLabel(d), type |-> "doc"]

ExpandEntityNode(e) == [id |-> EntNodeId(Upper(e.name)), label |-> e.name, type |-> "entity"]

\* The name column of the entity a link row is joined to.
EntityName(ent_id) == (CHOOSE e \in entities : e.id = ent_id).name

\* One edge per pair with a non-empty entity name.
ExpandEdges(pairs) ==
    LET named == SelectSeq(pairs, LAMBDA l : EntityName(l.ent_id) # <<>>)
    IN  [k \in DOMAIN named |->
            [source |-> DocNodeId(named[k].doc_id),
             target |-> EntNodeId(Upper(EntityName(named[k].ent_id))),
             label |-> "mentions"]]

\* nodes, edges = expand_graph(seed_ids, window_days)
expand_graph(docs, ents, pairs) ==
    [built |-> TRUE,
     nodes |-> [k \in DOMAIN docs |-> ExpandDocNode(docs[k])]
                 \o [k \in DOMAIN ents |-> ExpandEntityNode(ents[k])],
     edges |-> ExpandEdges(pairs)]

\* The answer of one call, kept with the since that the call computed.
Served(since, g) ==
    [built |-> g.built, nodes |-> g.nodes, edges |-> g.edges, since |-> since]

\* One request to /graph/expand, served while no ingestion call is running.
ExpandGraph ==
    /\ \A t \in Workers : CanCall(t)
    /\ ~expanded.built
    /\ \E since \in Sinces :
       \E docs \in RecentDocuments(since), ents \in TopEntities(since),
          pairs \in LinkPairs(since) :
            expanded' = Served(since, expand_graph(docs, ents, pairs))
    /\ UNCHANGED <<corpus, cfg, graph, svcvars, dbvars>>

\* ---- the three SELECTs of expand_graph, one at a time ----
\* Helper calls that ingestion has started while a query is followed: one
\* for each worker.
QueryCalls == Cardinality(Workers)

\* expand_graph between two of its SELECTs: the window and the rows read so far.
QueryAt(pc, since, docs, ents) ==
    [built |-> FALSE, nodes |-> <<>>, edges |-> <<>>, before |-> NoGraph.before,
     pc |-> pc, since |-> since, docs |-> docs, ents |-> ents]

\* A session that deletes what it has read.
SessionDeletes(rows) == {}

\* "with SessionLocal() as s" around SELECTs only: the session adds nothing,
\* changes no loaded row and is closed without commit, so each table is left
\* with the rows it had.
SessionReadOnly(rows) == rows

\* since is computed and the documents query runs.
ExpandSelectDocuments ==
    /\ expanded = NoGraph
    /\ \E since \in Sinces : \E docs \in RecentDocuments(since) :
          expanded' = QueryAt("ents", since, docs, <<>>)
    /\ UNCHANGED <<corpus, cfg, graph, svcvars, dbvars>>

\* The entities query runs.
ExpandSelectEntities ==
    /\ expanded # NoGraph
    /\ ~expanded.built
    /\ expanded.pc = "ents"
    /\ \E ents \in TopEntities(expanded.since) :
          expanded' = QueryAt("pairs", expanded.since, expanded.docs, ents)
    /\ UNCHANGED <<corpus, cfg, graph, svcvars, dbvars>>

\* The pairs query runs, the session is closed and (nodes, edges) returned.
ExpandSelectPairs ==
    /\ expanded # NoGraph
    /\ ~expanded.built
    /\ expanded.pc = "pairs"
    /\ \E pairs \in LinkPairs(expanded.since) :
          expanded' = Served(expanded.since, expand_graph(expanded.docs, expanded.ents, pairs))
    /\ documents' = SessionReadOnly(documents)
    /\ entities' = SessionReadOnly(entities)
    /\ doc_entities' = SessionReadOnly(doc_entities)
    /\ UNCHANGED <<next_doc_id, ent_seq, link_seq, th, sess_new, sess_upd, ncalls>>
    /\ UNCHANGED <<corpus, cfg, graph, svcvars>>

\* ---- expand_graph over the stores that ingestion can leave ----
\* Rows that upsert_document, upsert_entity and link_doc_entity can have
\* committed: one row per url, one row per exact name, links between them.
StoredDocuments ==
    {[id |-> 1, url |-> "u1", title |-> "T1", source |-> None, published_at |-> 2,
      text |-> None],
     [id |-> 2, url |-> "u2", title |-> None, source |-> None, published_at |-> 1,
      text |-> None],
     [id |-> 3, url |-> "u3", title |-> None, source |-> None, published_at |-> 2,
      text |-> None],
     [id |-> 4, url |-> "u4", title |-> "T1", source |-> None, published_at |-> NoTime,
      text |-> None]}

StoredEntities ==
    {[id |-> 1, name |-> <<"a">>, type |-> None],
     [id |-> 2, name |-> <<"A">>, type |-> "ORG"],
     [id |-> 3, name |-> <<"b">>, type |-> None]}

\* Links of one store.
MaxStoredLinks == 3

StoredLinks(docs, ents) ==
    {[id |-> 3 * (d.id - 1) + e.id, doc_id |-> d.id, ent_id |-> e.id, relation |-> MENTION] :
        d \in docs, e \in ents}

\* A store after ingestion, with every worker between calls.
StoreInit ==
    /\ documents \in SUBSET StoredDocuments
    /\ entities \in SUBSET StoredEntities
    /\ doc_entities \in {L \in SUBSET StoredLinks(documents, entities) :
                            Cardinality(L) <= MaxStoredLinks}
    /\ next_doc_id = 5
    /\ ent_seq = 4
    /\ link_seq = 13
    /\ th = [t \in Workers |-> IdleThread]
    /\ sess_new = [t \in Workers |-> {}]
    /\ sess_upd = [t \in Workers |-> {}]
    /\ ncalls = 0

\* ---- the seed ids of a graph query ----
\* Entries of a corpus on which the seeds are tried.
MaxSeedEnts == 2

\* The stores on which the seeds are tried: the stored documents that have
\* a timestamp and the two entities named alike, with any links among them.
SeedStoreInit ==
    /\ StoreInit
    /\ documents = {d \in StoredDocuments : d.published_at # NoTime}
    /\ entities = {e \in StoredEntities : Upper(e.name) = <<"A">>}

\* seed_ids of a request: none, a document, an entity.
SeedLists == {<<>>, <<DocNodeId(2)>>, <<EntNodeId(<<"A">>)>>}

\* A candidate list with the seeded documents moved to the front.
SeedDocsFirst(seed_ids, docs) ==
    SelectSeq(docs, LAMBDA d : DocNodeId(d.doc_id) \in SeqRange(seed_ids))
      \o SelectSeq(docs, LAMBDA d : DocNodeId(d.doc_id) \notin SeqRange(seed_ids))

\* Step 1 of build_graph: docs = list(list_recent_documents(window_days));
\* seed_doc_ids and missing are computed from seed_ids and not used.
CandidateDocs(seed_ids, docs) == docs

\* build_graph(seed_ids, window_days, max_hops) on the answers c of the data layer.
build_graph_seeded(seed_ids, c) ==
    build_graph([c EXCEPT !.docs = CandidateDocs(seed_ids, c.docs)])

\* expand_graph(seed_ids, window_days): the body never reads seed_ids.
expand_graph_seeded(seed_ids, docs, ents, pairs) == expand_graph(docs, ents, pairs)

\* One call of build_graph with seed ids.
BuildGraphSeeded ==
    /\ ~graph.built
    /\ ~expanded.built
    /\ \E seed_ids \in SeedLists :
          graph' = build_graph_seeded(seed_ids, corpus) @@ [seed_ids |-> seed_ids]
    /\ UNCHANGED <<corpus, cfg, expanded, svcvars, dbvars>>

\* One request to /graph/expand with seed ids.
ExpandGraphSeeded ==
    /\ ~graph.built
    /\ ~expanded.built
    /\ \E seed_ids \in SeedLists, since \in Sinces :
       \E docs \in RecentDocuments(since), ents \in TopEntities(since),
          pairs \in LinkPairs(since) :
            expanded' = Served(since, expand_graph_seeded(seed_ids, docs, ents, pairs))
                           @@ [seed_ids |-> seed_ids]
    /\ UNCHANGED <<corpus, cfg, graph, svcvars, dbvars>>

\* The answers that a request with seed_ids and since can get from the store.
ExpandAnswers(seed_ids, since) ==
    {expand_graph_seeded(seed_ids, docs, ents, pairs) :
        docs \in RecentDocuments(since), ents \in TopEntities(since),
        pairs \in LinkPairs(since)}

(***************************************************************************)
(* crawler (app/crawler.py): fetch_rss, fetch_topic, fetch_url             *)
(*                                                                         *)
(* The network and the parsers are the environment: every request and      *)
(* every parse either raises or answers, and the answer is drawn when the  *)
(* step is taken. crawl.log records the requests sent, in order.           *)
(***************************************************************************)
\* Entries a feed can hold.
MaxFeedItems == 2

\* MAX_ITEMS_CAP (default 60) and the default of max_items (30), scaled to the
\* feeds explored.
MAX_ITEMS_CAP == 2
DEFAULT_MAX_ITEMS == 1

GOOGLE == "google"
BING == "bing"

\* os.getenv("TOPIC_SOURCE", "").lower().strip()
ForcedSources == {"", GOOGLE, BING}

\* A sources list without the second provider.
TopicSourcesFirstOnly(forced) == IF forced = BING THEN <<BING>> ELSE <<GOOGLE>>

\* The sources list of fetch_topic.
TopicSources(forced) ==
    IF forced = GOOGLE THEN <<GOOGLE>>
    ELSE IF forced = BING THEN <<BING>>
    ELSE <<GOOGLE, BING>>

\* Feed urls handed to fetch_rss directly.
FeedUrls == {"f1"}

\* Values of max_items.
MaxItemsArgs == 0..(MAX_ITEMS_CAP + 1)

\* The n items _parse_rss builds from what one request to url returned.
FeedItems(url, via, n) == [k \in 1..n |-> [url |-> <<url, via, k>>]]

NoResult == [items |-> <<>>, diag |-> <<>>, source_used |-> None, attempts |-> <<>>,
             title |-> None, text |-> None, has_text |-> FALSE]

\* What the server can answer to the GET of fetch_url, when it answers 2xx.
\* trafilatura.extract gives a text, None, or raises (then the tags are
\* stripped by the regular expressions).
Pages ==
    [status : {200, 204}, html : BOOLEAN, page_title : {None, "", "T1"},
     trafilatura : {"text", "none", "raises"}, stripped : {"", "X1"}]

NoPage ==
    [status |-> 0, html |-> FALSE, page_title |-> None, trafilatura |-> "none",
     stripped |-> ""]

\* direct, fallback and request tell how each request of the call ended:
\* "none" (not sent), "raised" or "ok".
CrawlIdle ==
    [op |-> None, pc |-> "idle", max_items |-> 0, forced |-> "", sources |-> <<>>,
     idx |-> 0, attempts |-> <<>>, rss_url |-> None, rss_items |-> <<>>,
     rss_diag |-> <<>>, direct |-> "none", fallback |-> "none", log |-> <<>>,
     url |-> None, request |-> "none", page |-> NoPage, ret |-> NoResult,
     raised |-> FALSE]

CrawlerIdle == crawl = CrawlIdle

CrawlerFree == crawl.pc \in {"idle", "done"}

\* fetch_topic(topic, max_items) is entered: sources is built.
CallFetchTopic ==
    /\ CrawlerFree
    /\ \E m \in MaxItemsArgs, forced \in ForcedSources :
          crawl' = [CrawlIdle EXCEPT !.op = "fetch_topic", !.pc = "ft_loop",
                                     !.max_items = m, !.forced = forced,
                                     !.sources = TopicSources(forced),
                                     !.idx = 1]
    /\ UNCHANGED <<corpus, cfg, graph, expanded, jobvars, pipevars, dbvars>>

\* fetch_rss(rss_url) is entered by a caller other than fetch_topic.
CallFetchRss ==
    /\ CrawlerFree
    /\ \E u \in FeedUrls :
          crawl' = [CrawlIdle EXCEPT !.op = "fetch_rss", !.pc = "rss_direct", !.rss_url = u]
    /\ UNCHANGED <<corpus, cfg, graph, expanded, jobvars, pipevars, dbvars>>

\* "for name, url in sources": the next source is handed to fetch_rss.
FetchTopicNext ==
    /\ crawl.op = "fetch_topic"
    /\ crawl.pc = "ft_loop"
    /\ crawl.idx <= Len(crawl.sources)
    /\ crawl' = [crawl EXCEPT !.pc = "rss_direct", !.rss_url = crawl.sources[crawl.idx],
                              !.direct = "none", !.fallback = "none"]
    /\ UNCHANGED <<corpus, cfg, graph, expanded, jobvars, pipevars, dbvars>>

\* First strategy of fetch_rss: _http_get and _parse_rss(r.content). A failed
\* request (raise_for_status, timeout) or a failed parse raises and leads to
\* the second strategy; otherwise the items parsed are returned.
RssDirect ==
    /\ crawl.pc = "rss_direct"
    /\ \/ crawl' = [crawl EXCEPT !.pc = "rss_fallback", !.direct = "raised",
                                 !.log = Append(@, <<crawl.rss_url, "requests">>)]
       \/ \E n \in 0..MaxFeedItems :
             crawl' = [crawl EXCEPT !.pc = "rss_return", !.direct = "ok",
                                    !.rss_items = FeedItems(crawl.rss_url, "requests", n),
                                    !.rss_diag = <<"requests+parse ok", n>>,
                                    !.log = Append(@, <<crawl.rss_url, "requests">>)]
    /\ UNCHANGED <<corpus, cfg, graph, expanded, jobvars, pipevars, dbvars>>

\* A handler that lets the second failure leave fetch_rss.
RssFailureReraised(ex) == [items |-> <<>>, diag |-> <<>>, raised |-> TRUE]

\* except Exception as ex: return [], f"both failed: {type(ex).__name__}"
RssFailure(ex) == [items |-> <<>>, diag |-> <<"both failed", ex>>, raised |-> FALSE]

\* Second strategy of fetch_rss: _parse_rss(rss_url), feedparser fetching the
\* url itself; an exception gives the empty list and the "both failed" text.
RssFallback ==
    /\ crawl.pc = "rss_fallback"
    /\ \/ \E ex \in {"URLError", "ValueError"} :
             LET f == RssFailure(ex) IN
             crawl' = [crawl EXCEPT !.pc = IF f.raised THEN "done" ELSE "rss_return",
                                    !.raised = f.raised,
                                    !.fallback = "raised",
                                    !.rss_items = f.items,
                                    !.rss_diag = f.diag,
                                    !.log = Append(@, <<crawl.rss_url, "feedparser">>)]
       \/ \E n \in 0..MaxFeedItems :
             crawl' = [crawl EXCEPT !.pc = "rss_return", !.fallback = "ok",
                                    !.rss_items = FeedItems(crawl.rss_url, "feedparser", n),
                                    !.rss_diag = <<"feedparser-fetch ok", n>>,
                                    !.log = Append(@, <<crawl.rss_url, "feedparser">>)]
    /\ UNCHANGED <<corpus, cfg, graph, expanded, jobvars, pipevars, dbvars>>

\* limit = min(int(max_items or 30), MAX_ITEMS_CAP)
TopicLimit(max_items) ==
    Min2(IF max_items # 0 THEN max_items ELSE DEFAULT_MAX_ITEMS, MAX_ITEMS_CAP)

\* A loop that goes on to the next source after a source gave items.
StopsAtNever(items) == FALSE

\* "if items:" of the loop of fetch_topic
StopsAt(items) == items # <<>>

\* fetch_rss returns (items, diag): to its caller, or into the loop of
\* fetch_topic, which records the attempt and returns at the first source
\* that gave items.
RssReturn ==
    /\ crawl.pc = "rss_return"
    /\ IF crawl.op = "fetch_rss"
       THEN crawl' = [crawl EXCEPT !.pc = "done",
                                   !.ret = [NoResult EXCEPT !.items = crawl.rss_items,
                                                            !.diag = crawl.rss_diag]]
       ELSE LET attempts == Append(crawl.attempts,
                               [source |-> crawl.sources[crawl.idx],
                                count |-> Len(crawl.rss_items),
                                diag |-> crawl.rss_diag])
            IN  IF StopsAt(crawl.rss_items)
                THEN crawl' = [crawl EXCEPT
                        !.pc = "done", !.attempts = attempts,
                        !.ret = [NoResult EXCEPT
                                   !.source_used = crawl.sources[crawl.idx],
                                   !.attempts = attempts,
                                   !.items = Take(crawl.rss_items, TopicLimit(crawl.max_items))]]
                ELSE crawl' = [crawl EXCEPT !.pc = "ft_loop", !.attempts = attempts,
                                            !.idx = @ + 1, !.rss_items = <<>>,
                                            !.rss_diag = <<>>]
    /\ UNCHANGED <<corpus, cfg, graph, expanded, jobvars, pipevars, dbvars>>

\* The loop of fetch_topic is exhausted: source_used None and no items.
FetchTopicEmpty ==
    /\ crawl.op = "fetch_topic"
    /\ crawl.pc = "ft_loop"
    /\ crawl.idx > Len(crawl.sources)
    /\ crawl' = [crawl EXCEPT !.pc = "done",
                              !.ret = [NoResult EXCEPT !.attempts = crawl.attempts]]
    /\ UNCHANGED <<corpus, cfg, graph, expanded, jobvars, pipevars, dbvars>>

\* _extract_text(html): the text of trafilatura, or, when trafilatura raises,
\* what is left after the tags are stripped.
_extract_text(page) ==
    CASE page.trafilatura = "text" -> "Y1"
      [] page.trafilatura = "none" -> ""
      [] OTHER -> page.stripped

\* The title guessed from <title>, else the url: "title or url".
PageTitle(page, url) ==
    IF page.page_title \in {None, ""} THEN url ELSE page.page_title

\* A test of the status alone.
IsStatusOk(page) == page.status = 200

\* r.status_code == 200 and "text/html" in r.headers.get("content-type", "")
IsHtmlPage(page) == page.status = 200 /\ page.html

\* fetch_url(url): one request. An exception of the request (a non-2xx status
\* included) is caught; everything but a 200 text/html answer ends in the
\* fallback record with empty text.
FetchUrl ==
    /\ CrawlerFree
    /\ \E u \in Urls :
       LET fallback == [NoResult EXCEPT !.title = u, !.text = "", !.has_text = TRUE]
           start == [CrawlIdle EXCEPT !.op = "fetch_url", !.pc = "done", !.url = u,
                                      !.log = <<<<u, "requests">>>>]
       IN  \/ crawl' = [start EXCEPT !.request = "raised", !.ret = fallback]
           \/ \E page \in Pages :
                 crawl' = [start EXCEPT
                    !.request = "ok", !.page = page,
                    !.ret = IF IsHtmlPage(page)
                            THEN [NoResult EXCEPT !.title = PageTitle(page, u),
                                                  !.text = _extract_text(page),
                                                  !.has_text = TRUE]
                            ELSE fallback]
    /\ UNCHANGED <<corpus, cfg, graph, expanded, jobvars, pipevars, dbvars>>

CrawlerNext ==
    \/ CallFetchTopic
    \/ CallFetchRss
    \/ FetchTopicNext
    \/ RssDirect
    \/ RssFallback
    \/ RssReturn
    \/ FetchTopicEmpty
    \/ FetchUrl

(***************************************************************************)
(* hydrate_items_with_text (app/crawler.py)                                *)
(*                                                                         *)
(* One step is one iteration of the loop over items; what the request for  *)
(* the article gives is drawn at the step. MIN_CONTENT_LEN (300) and the   *)
(* floor of the feed summary (100) are scaled to the texts explored.       *)
(***************************************************************************)
\* Items in one call.
MaxHydItems == 2

\* MIN_CONTENT_LEN = int(os.getenv("MIN_CONTENT_LEN", "300")), scaled.
MIN_CONTENT_LEN == 3

\* The 100 of "len(feed_txt) >= 100", scaled.
FEED_TXT_MIN == 2

\* re.sub(r"\s+", " ", s)
RECURSIVE CollapseSpaces(_)
CollapseSpaces(s) ==
    IF Len(s) < 2 THEN s
    ELSE IF s[1] = " " /\ s[2] = " " THEN CollapseSpaces(Tail(s))
    ELSE <<s[1]>> \o CollapseSpaces(Tail(s))

\* _clean(s); a missing value is the empty string.
_clean(s) == Strip(CollapseSpaces(s))

\* A text of n characters, as _extract_text returns it.
ArticleText(n) == [k \in 1..n |-> "x"]

ArticleTexts == {ArticleText(n) : n \in {0, 1, MIN_CONTENT_LEN - 1, MIN_CONTENT_LEN}}

\* Feed summaries: none, one that is long only before _clean, a long one.
Summaries == {<<>>, <<" ", "a", " ", " ">>, <<"a", "a", " ", " ", "a", "a">>}

\* "" is a missing or empty url; the item of u1 has a title, that of u2 none.
ItemUrls == {"", "u1", "u2"}

HydItems == {[url |-> u, title |-> IF u = "u1" THEN "T0" ELSE "", summary |-> sm] :
                u \in ItemUrls, sm \in Summaries}

\* The answers to the GET of an article: status, content type, <title>, and
\* what _extract_text makes of the html.
Articles ==
    [status : {200, 204}, html : BOOLEAN, page_title : {"", "T1"}, text : ArticleTexts]

HydrationIdle ==
    [pc |-> "idle", items |-> <<>>, i |-> 0, seen |-> {}, saved |-> <<>>,
     n_feed |-> 0, n_ok |-> 0, n_block |-> 0, n_short |-> 0, n_dup |-> 0, n_saved |-> 0,
     done |-> <<>>, ret |-> [saved |-> <<>>, diag |-> <<>>]]

\* hydrate_items_with_text(items) is entered.
CallHydrate ==
    /\ hydration.pc = "idle"
    /\ \E items \in SeqsUpTo(HydItems, MaxHydItems) :
          hydration' = [HydrationIdle EXCEPT !.pc = "loop", !.items = items, !.i = 1]
    /\ UNCHANGED <<corpus, cfg, graph, expanded, crawl, jobvars, ingest, scored, dbvars>>

\* A test that lets every url through.
SkipsMissingOnly(url, seen) == url = ""

\* if not url or url in seen
Skips(url, seen) == url = "" \/ url \in seen

\* A fallback that is never taken.
UsesSummaryNever(text, feed_txt) == FALSE

\* len(text) < MIN_CONTENT_LEN, and feed_txt and len(feed_txt) >= 100
UsesSummary(text, feed_txt) ==
    Len(text) < MIN_CONTENT_LEN /\ feed_txt # <<>> /\ Len(feed_txt) >= FEED_TXT_MIN

\* A skip that leaves n_dup as it is.
HydrateSkipUncounted(h, item) ==
    [h EXCEPT !.i = @ + 1, !.n_feed = @ + 1,
              !.done = Append(@, [i |-> h.i, fetched |-> FALSE, ok |-> FALSE,
                                  article |-> <<>>, saved |-> FALSE])]

\* The iteration for an item that is skipped: n_dup += 1; continue.
HydrateSkip(h, item) ==
    [h EXCEPT !.i = @ + 1, !.n_feed = @ + 1, !.n_dup = @ + 1,
              !.done = Append(@, [i |-> h.i, fetched |-> FALSE, ok |-> FALSE,
                                  article |-> <<>>, saved |-> FALSE])]

\* The iteration for an item that is fetched: article is the text of step 1
\* ("" when the request raised or the answer was not a 200 text/html), ok
\* tells which counter of step 1 grew, page_title is the cleaned <title>.
HydrateFetch(h, item, ok, article, page_title) ==
    LET feed_txt == _clean(item.summary)
        fallback == UsesSummary(article, feed_txt)
        text == IF fallback THEN feed_txt ELSE article
        title0 == IF item.title # "" THEN item.title ELSE item.url
        title == IF ok /\ page_title # "" THEN page_title ELSE title0
        entry == [title |-> title, url |-> item.url, text |-> text, source |-> "topic-rss"]
    IN  [h EXCEPT
            !.i = @ + 1,
            !.seen = @ \cup {item.url},
            !.n_feed = @ + 1,
            !.n_ok = IF ok THEN @ + 1 ELSE @,
            !.n_block = IF ok THEN @ ELSE @ + 1,
            !.n_short = IF Len(article) < MIN_CONTENT_LEN /\ ~fallback THEN @ + 1 ELSE @,
            !.saved = IF text # <<>> THEN Append(@, entry) ELSE @,
            !.n_saved = IF text # <<>> THEN @ + 1 ELSE @,
            !.done = Append(@, [i |-> h.i, fetched |-> TRUE, ok |-> ok,
                                article |-> article, saved |-> text # <<>>])]

\* One iteration of "for item in items".
HydrateItem ==
    /\ hydration.pc = "loop"
    /\ hydration.i <= Len(hydration.items)
    /\ LET h == hydration
           item == h.items[h.i]
       IN  IF Skips(item.url, h.seen)
           THEN hydration' = HydrateSkip(h, item)
           ELSE \/ hydration' = HydrateFetch(h, item, FALSE, <<>>, "")
                \/ \E page \in Articles :
                      hydration' =
                         IF IsHtmlPage(page)
                         THEN HydrateFetch(h, item, TRUE, page.text, page.page_title)
                         ELSE HydrateFetch(h, item, FALSE, <<>>, "")
    /\ UNCHANGED <<corpus, cfg, graph, expanded, crawl, jobvars, ingest, scored, dbvars>>

\* After the loop: the diag line and the return.
HydrateReturn ==
    /\ hydration.pc = "loop"
    /\ hydration.i > Len(hydration.items)
    /\ hydration' =
          [hydration EXCEPT
              !.pc = "done",
              !.ret = [saved |-> hydration.saved,
                       diag |-> [feed_items |-> hydration.n_feed,
                                 fetched_ok |-> hydration.n_ok,
                                 blocked |-> hydration.n_block,
                                 short |-> hydration.n_short,
                                 dup |-> hydration.n_dup,
                                 saved |-> hydration.n_saved]]]
    /\ UNCHANGED <<corpus, cfg, graph, expanded, crawl, jobvars, ingest, scored, dbvars>>

HydrateNext == CallHydrate \/ HydrateItem \/ HydrateReturn

(***************************************************************************)
(* _ingest_single (app/main.py)                                            *)
(*                                                                         *)
(* One call at a time; each collaborator (fetch_url, the store, the        *)
(* extractor, embed, index_document) answers or raises as drawn at the     *)
(* step. The document is written as upsert_document writes it.             *)
(***************************************************************************)
\* Calls of _ingest_single in one behaviour, and entities the extractor finds.
MaxIngestCalls == 2
MaxIngestEnts == 2

TitleHints == {None, "T0"}

\* What extract_entities can find: (name, type) tuples.
NerPool == {[name |-> <<"a">>, type |-> "ORG"], [name |-> <<"A">>, type |-> "GPE"]}

\* The returns of fetch_url(url): the fallback record when the request raises
\* or the answer is not a 200 text/html, else the title and the text found.
FetchUrlResults(url) ==
    {[title |-> url, text |-> ""]}
    \cup {IF IsHtmlPage(page)
          THEN [title |-> PageTitle(page, url), text |-> _extract_text(page)]
          ELSE [title |-> url, text |-> ""] : page \in Pages}

NoIngested == [doc_id |-> NoId, title |-> None, url |-> None, entities |-> <<>>]

IngestIdle ==
    [pc |-> "idle", calls |-> 0, url |-> None, title |-> None, text |-> None,
     published_at |-> NoTime, source |-> "single-url", doc_id |-> NoId,
     ents |-> <<>>, ent_names |-> <<>>, ner_raised |-> FALSE, embed_raised |-> FALSE,
     index_raised |-> FALSE, err |-> None, ret |-> NoIngested,
     entities_before |-> {}, links_before |-> {}]

\* What an action of _ingest_single leaves alone besides the store.
ingestframe ==
    <<th, sess_new, sess_upd, ncalls, corpus, cfg, graph, expanded, crawl, jobvars,
      hydration, scored>>

\* _ingest_single(url, title_hint, source) up to step 1: fetch_url, then
\* title = title_hint or page.get("title") or url, text = page.get("text") or "",
\* published_at = page.get("published_at") or datetime.utcnow().
CallIngestSingle ==
    /\ ingest.pc \in {"idle", "returned", "raised"}
    /\ ingest.calls < MaxIngestCalls
    /\ \E u \in Urls, hint \in TitleHints : \E page \in FetchUrlResults(u) :
          ingest' = [IngestIdle EXCEPT
                        !.pc = "upsert", !.calls = ingest.calls + 1, !.url = u,
                        !.title = IF hint # None THEN hint ELSE page.title,
                        !.text = page.text,
                        !.published_at = ingest.calls + 1,
                        !.entities_before = entities,
                        !.links_before = doc_entities]
    /\ UNCHANGED <<documents, entities, doc_entities, next_doc_id, ent_seq, link_seq>>
    /\ UNCHANGED ingestframe

\* Step 1: doc_id = upsert_document(url=, title=, source=, text=, published_at=);
\* an SQLAlchemyError is printed and raised again.
IngestUpsertDocument ==
    /\ ingest.pc = "upsert"
    /\ LET a == [title |-> ingest.title, source |-> ingest.source,
                 published_at |-> ingest.published_at,
                 body_text |-> BodyText(ingest.text, None)]
           rows == SelectDocumentByUrl(ingest.url)
       IN  \/ /\ ingest' = [ingest EXCEPT !.pc = "raised", !.err = "SQLAlchemyError"]
              /\ UNCHANGED <<documents, next_doc_id>>
           \/ /\ rows # {}
              /\ \E d \in rows :
                    /\ documents' = (documents \ {d}) \cup {UpdatedDocument(d, a)}
                    /\ ingest' = [ingest EXCEPT !.pc = "ner", !.doc_id = d.id]
              /\ UNCHANGED next_doc_id
           \/ /\ rows = {}
              /\ documents' = documents \cup {NewDocument(next_doc_id, ingest.url, a)}
              /\ next_doc_id' = next_doc_id + 1
              /\ ingest' = [ingest EXCEPT !.pc = "ner", !.doc_id = next_doc_id]
    /\ UNCHANGED <<entities, doc_entities, ent_seq, link_seq>>
    /\ UNCHANGED ingestframe

\* An extractor whose exception leaves _ingest_single.
AfterNerFatal(raised) == IF raised THEN "raised" ELSE "entities"

\* Step 2: try / except Exception around extract_entities: ents = [].
AfterNer(raised) == "entities"

IngestExtract ==
    /\ ingest.pc = "ner"
    /\ \/ ingest' = [ingest EXCEPT !.pc = AfterNer(TRUE), !.ner_raised = TRUE, !.ents = <<>>,
                                   !.err = IF AfterNer(TRUE) = "raised"
                                           THEN "NerError" ELSE None]
       \/ \E ents \in SeqsUpTo(NerPool, MaxIngestEnts) :
             ingest' = [ingest EXCEPT !.pc = AfterNer(FALSE), !.ents = ents]
    /\ UNCHANGED <<documents, entities, doc_entities, next_doc_id, ent_seq, link_seq>>
    /\ UNCHANGED ingestframe

\* def link_doc_entity(*, doc_id, ent_id, relation) takes no positional
\* argument: a call that passes npositional of them binds only when it is 0.
LinkCallBinds(npositional) == npositional = 0

\* Step 3: with SessionLocal() as s: for every tuple upsert_entity(s, name,
\* etype), then link_doc_entity(s, doc_id=..., ent_id=..., relation="MENTION");
\* s.commit() after the loop. The link call passes s positionally, so the
\* first iteration ends in a TypeError, which "except SQLAlchemyError" does
\* not catch: the session is closed, the pending entity row is rolled back
\* (the value drawn from the sequence by its INSERT is not given back), and
\* the exception leaves _ingest_single.
IngestEntities ==
    /\ ingest.pc = "entities"
    /\ \/ /\ ingest' = [ingest EXCEPT !.pc = "raised", !.err = "SQLAlchemyError"]
          /\ UNCHANGED ent_seq
       \/ /\ ingest.ents = <<>>
          /\ ingest' = [ingest EXCEPT !.pc = "embed"]
          /\ UNCHANGED ent_seq
       \/ /\ ingest.ents # <<>>
          /\ ~LinkCallBinds(1)
          /\ ent_seq' = IF EntityNameTaken(Head(ingest.ents).name)
                        THEN ent_seq ELSE ent_seq + 1
          /\ ingest' = [ingest EXCEPT !.pc = "raised", !.err = "TypeError"]
    /\ UNCHANGED <<documents, entities, doc_entities, next_doc_id, link_seq>>
    /\ UNCHANGED ingestframe

\* Step 4, first statement: vec = embed(...), outside every try.
IngestEmbed ==
    /\ ingest.pc = "embed"
    /\ \/ ingest' = [ingest EXCEPT !.pc = "raised", !.embed_raised = TRUE,
                                   !.err = "EmbedError"]
       \/ ingest' = [ingest EXCEPT !.pc = "index"]
    /\ UNCHANGED <<documents, entities, doc_entities, next_doc_id, ent_seq, link_seq>>
    /\ UNCHANGED ingestframe

\* Step 4, second statement: try / except Exception around index_document;
\* then the summary of the item is returned.
IngestIndex ==
    /\ ingest.pc = "index"
    /\ \E raised \in BOOLEAN :
          ingest' = [ingest EXCEPT
                        !.pc = "returned", !.index_raised = raised,
                        !.ret = [doc_id |-> ingest.doc_id, title |-> ingest.title,
                                 url |-> ingest.url, entities |-> ingest.ent_names]]
    /\ UNCHANGED <<documents, entities, doc_entities, next_doc_id, ent_seq, link_seq>>
    /\ UNCHANGED ingestframe

IngestNext ==
    \/ CallIngestSingle
    \/ IngestUpsertDocument
    \/ IngestExtract
    \/ IngestEntities
    \/ IngestEmbed
    \/ IngestIndex

(***************************************************************************)
(* Ingestion jobs (app/main.py): the job store, the three submission       *)
(* endpoints with their background workers, the status query and the       *)
(* flush.                                                                  *)
(*                                                                         *)
(* A worker step is the work up to and including its next _jobs_set. What  *)
(* _ingest_single does for one item is drawn as its outcome, returned or   *)
(* raised; its writes to the store are those of the helpers modelled       *)
(* above and are left out here. Redis answers or fails from one moment to  *)
(* the next.                                                               *)
(***************************************************************************)
\* Items a fetch can hand to a worker.
MaxBatchItems == 2

\* items[:20] of a topic job and items[:30] of an RSS job, scaled to the
\* batches explored.
TOPIC_BATCH_CAP == 1
RSS_BATCH_CAP == 2

JobIds == {"j1"}
JobKinds == {"topic", "rss", "url"}

\* A progress dict without done/total carries NoCount.
NoCount == 0 - 1

NoDoc == [status |-> None, stage |-> None, done |-> NoCount, total |-> NoCount,
          ingested |-> <<>>, error |-> FALSE]

\* The record _jobs_set builds.
JobDoc(status, stage, done, total, ingested, error) ==
    [status |-> status, stage |-> stage, done |-> done, total |-> total,
     ingested |-> ingested, error |-> error]

NoJob == [kind |-> None, pc |-> "none", nitems |-> 0, total |-> 0, i |-> 0,
          results |-> <<>>, processed |-> <<>>, failed |-> {}, last |-> NoDoc]

\* An answer of the status query, with what held when it was served;
\* final_before tells that an earlier answer for the job was done or error.
NoReply ==
    [status |-> "none", submitted |-> FALSE, finished |-> FALSE, gone |-> FALSE,
     reachable |-> TRUE, final_before |-> FALSE]

JobsIdle ==
    /\ use_redis = FALSE
    /\ redis_ok = TRUE
    /\ redis_jobs = [j \in JobIds |-> NoDoc]
    /\ memory_jobs = [j \in JobIds |-> NoDoc]
    /\ job = [j \in JobIds |-> NoJob]
    /\ reply = [j \in JobIds |-> NoReply]
    /\ gone = [j \in JobIds |-> FALSE]

\* The service starts with or without a Redis client.
JobsInit ==
    /\ use_redis \in BOOLEAN
    /\ redis_ok = TRUE
    /\ redis_jobs = [j \in JobIds |-> NoDoc]
    /\ memory_jobs = [j \in JobIds |-> NoDoc]
    /\ job = [j \in JobIds |-> NoJob]
    /\ reply = [j \in JobIds |-> NoReply]
    /\ gone = [j \in JobIds |-> FALSE]

\* _jobs_set: setex on Redis when there is a client, else the memory dict;
\* when setex raises, the record goes to the memory dict.
_jobs_set(j, doc) ==
    IF use_redis /\ redis_ok
    THEN /\ redis_jobs' = [redis_jobs EXCEPT ![j] = doc]
         /\ UNCHANGED memory_jobs
    ELSE /\ memory_jobs' = [memory_jobs EXCEPT ![j] = doc]
         /\ UNCHANGED redis_jobs

\* _jobs_get: the Redis key when there is a client and it answers (None when
\* the key is absent), else the memory dict.
_jobs_get(j) ==
    IF use_redis /\ redis_ok THEN redis_jobs[j] ELSE memory_jobs[j]

\* The Redis server becomes unreachable, or reachable again.
RedisFlips ==
    /\ use_redis
    /\ redis_ok' = ~redis_ok
    /\ UNCHANGED <<use_redis, redis_jobs, memory_jobs, job, reply, gone>>
    /\ UNCHANGED <<corpus, cfg, graph, expanded, crawl, pipevars, dbvars>>

\* The worker's step: job' and the record it writes.
Write(j, newjob, doc) ==
    /\ job' = [job EXCEPT ![j] = [newjob EXCEPT !.last = doc]]
    /\ _jobs_set(j, doc)
    /\ UNCHANGED <<use_redis, redis_ok, reply, gone>>
    /\ UNCHANGED <<corpus, cfg, graph, expanded, crawl, pipevars, dbvars>>

\* POST /ingest/topic, /ingest/rss, /ingest/url: the queued record is written,
\* the worker is added to the background tasks, the job id is returned.
Submit(j) ==
    /\ job[j].pc = "none"
    /\ \E kind \in JobKinds :
          Write(j, [NoJob EXCEPT !.kind = kind, !.pc = "queued"],
                JobDoc("queued", "queued", 0, IF kind = "url" THEN 1 ELSE 0, <<>>, FALSE))

\* First statement of work(): the running record.
WorkStarts(j) ==
    /\ job[j].pc = "queued"
    /\ CASE job[j].kind = "topic" ->
              Write(j, [job[j] EXCEPT !.pc = "fetch"],
                    JobDoc("running", "fetch_topic", NoCount, NoCount, <<>>, FALSE))
         [] job[j].kind = "rss" ->
              Write(j, [job[j] EXCEPT !.pc = "fetch"],
                    JobDoc("running", "fetch_rss", NoCount, NoCount, <<>>, FALSE))
         [] OTHER ->
              Write(j, [job[j] EXCEPT !.pc = "single"],
                    JobDoc("running", "ingest", 0, 1, <<>>, FALSE))

BatchCap(kind) == IF kind = "topic" THEN TOPIC_BATCH_CAP ELSE RSS_BATCH_CAP

\* fetch_topic / fetch_rss returns its items; total = min(len(items), cap).
WorkFetches(j) ==
    /\ job[j].pc = "fetch"
    /\ \E n \in 0..MaxBatchItems :
          LET total == Min2(n, BatchCap(job[j].kind)) IN
          Write(j, [job[j] EXCEPT !.pc = "loop", !.nitems = n, !.total = total, !.i = 1],
                JobDoc("running", "ingest", 0, total, <<>>, FALSE))

\* A loop without the inner try: the exception of an item leaves the loop.
AfterItemFatal(raised) == IF raised THEN "fatal" ELSE "loop"

\* try / except Exception / finally around one item: the loop goes on.
AfterItem(raised) == "loop"

\* A progress that counts the ingested items only.
ProgressIngested(i, raised) == IF raised THEN i - 1 ELSE i

\* finally: progress={"stage": "ingest", "done": i, "total": total}, with i
\* from enumerate(items[:cap], start=1), after an item that returned or raised.
ProgressDone(i, raised) == i

\* One iteration of the loop over items[:cap]: _ingest_single returns (the
\* result is appended) or raises (printed); finally the progress is written.
\* An exception that left the loop would reach the outer handler, which
\* writes the error record.
WorkIngestsItem(j) ==
    /\ job[j].pc = "loop"
    /\ job[j].i <= job[j].total
    /\ \E raised \in BOOLEAN :
          LET i == job[j].i
              after == [job[j] EXCEPT
                          !.i = i + 1,
                          !.processed = Append(@, i),
                          !.results = IF raised THEN @ ELSE Append(@, i),
                          !.failed = IF raised THEN @ \cup {i} ELSE @]
          IN  IF AfterItem(raised) = "loop"
              THEN Write(j, after, JobDoc("running", "ingest", ProgressDone(i, raised),
                                          job[j].total, <<>>, FALSE))
              ELSE Write(j, [after EXCEPT !.pc = "finished"],
                         JobDoc("error", "error", NoCount, NoCount, <<>>, TRUE))

\* After the loop: the done record with the results.
WorkCompletes(j) ==
    /\ job[j].pc = "loop"
    /\ job[j].i > job[j].total
    /\ Write(j, [job[j] EXCEPT !.pc = "finished"],
             JobDoc("done", "complete", job[j].total, job[j].total, job[j].results, FALSE))

\* work() of ingest_url: _ingest_single returns and the done record is
\* written, or it raises and the outer handler writes the error record.
WorkIngestsUrl(j) ==
    /\ job[j].pc = "single"
    /\ \/ Write(j, [job[j] EXCEPT !.pc = "finished", !.processed = <<1>>, !.results = <<1>>],
                JobDoc("done", "complete", 1, 1, <<1>>, FALSE))
       \/ Write(j, [job[j] EXCEPT !.pc = "finished", !.processed = <<1>>, !.failed = {1}],
                JobDoc("error", "error", NoCount, NoCount, <<>>, TRUE))

\* GET /jobs/{job_id}: 404 when _jobs_get gives nothing, else the status.
Jobs(j) ==
    /\ reply' = [reply EXCEPT ![j] =
                   [status |-> IF _jobs_get(j) = NoDoc THEN "404" ELSE _jobs_get(j).status,
                    submitted |-> job[j].pc # "none",
                    finished |-> job[j].pc = "finished",
                    gone |-> gone[j],
                    reachable |-> ~use_redis \/ redis_ok,
                    final_before |-> reply[j].final_before
                                       \/ reply[j].status \in {"done", "error"}]]
    /\ UNCHANGED <<use_redis, redis_ok, redis_jobs, memory_jobs, job, gone>>
    /\ UNCHANGED <<corpus, cfg, graph, expanded, crawl, pipevars, dbvars>>

\* The ttl of a Redis key (24 h after its last setex) runs out.
Expires(j) ==
    /\ use_redis
    /\ redis_jobs[j] # NoDoc
    /\ redis_jobs' = [redis_jobs EXCEPT ![j] = NoDoc]
    /\ gone' = [gone EXCEPT ![j] = TRUE]
    /\ UNCHANGED <<use_redis, redis_ok, memory_jobs, job, reply>>
    /\ UNCHANGED <<corpus, cfg, graph, expanded, crawl, pipevars, dbvars>>

\* POST /admin/flush: the three tables are emptied (TRUNCATE ... RESTART
\* IDENTITY, or the DELETEs, which leave the sequences), and the memory dict
\* of the jobs is cleared; Redis keys stay.
AdminFlush ==
    /\ \A t \in Workers : CanCall(t)
    /\ documents' = {}
    /\ entities' = {}
    /\ doc_entities' = {}
    /\ \/ ent_seq' = 1 /\ link_seq' = 1
       \/ UNCHANGED <<ent_seq, link_seq>>
    /\ memory_jobs' = [j \in JobIds |-> NoDoc]
    /\ gone' = [j \in JobIds |-> gone[j] \/ memory_jobs[j] # NoDoc]
    /\ UNCHANGED <<use_redis, redis_ok, redis_jobs, job, reply>>
    /\ UNCHANGED <<next_doc_id, th, sess_new, sess_upd, ncalls>>
    /\ UNCHANGED <<corpus, cfg, graph, expanded, crawl, pipevars>>

JobsNext ==
    \/ RedisFlips
    \/ AdminFlush
    \/ \E j \in JobIds :
          \/ Submit(j)
          \/ WorkStarts(j)
          \/ WorkFetches(j)
          \/ WorkIngestsItem(j)
          \/ WorkCompletes(j)
          \/ WorkIngestsUrl(j)
          \/ Jobs(j)
          \/ Expires(j)

(***************************************************************************)
(* Specifications.                                                         *)
(***************************************************************************)
\* One step of a worker inside upsert_document.
DocStep(t, Args) ==
    \/ CallUpsertDocument(t)
    \/ UpsertDocumentSelect(t)
    \/ UpsertDocumentWrite(t, Args)

\* One step of a worker inside a session that upserts entities.
EntStep(t) ==
    \/ CallUpsertEntity(t)
    \/ UpsertEntitySelect(t)
    \/ UpsertEntityWrite(t)
    \/ SessionCommit(t)

\* One step of a worker inside link_doc_entity.
LinkStep(t) ==
    \/ CallLinkDocEntity(t)
    \/ LinkDocEntitySelect(t)
    \/ LinkDocEntityWrite(t)

\* Every other worker is between calls.
Alone(t) == \A o \in Workers \ {t} : CanCall(o)

allvars == <<dbvars, gvars>>

vars == allvars

\* No call of the pipeline functions yet.
PipeIdle ==
    /\ hydration = HydrationIdle
    /\ ingest = IngestIdle
    /\ scored = [pc |-> "idle"]

Init == DbInit /\ GraphIdle /\ CrawlerIdle /\ JobsIdle /\ PipeIdle

\* The whole store under concurrent workers: any interleaving of their steps.
Next ==
    \E t \in Workers :
        DocStep(t, TimedDocumentArgs) \/ EntStep(t) \/ LinkStep(t) \/ DeadlockAbort(t)

Spec == Init /\ [][Next]_vars

\* The whole store under non-overlapping calls.
SeqNext ==
    \E t \in Workers :
        Alone(t) /\ (DocStep(t, TimedDocumentArgs) \/ EntStep(t) \/ LinkStep(t))

SpecSeq == Init /\ [][SeqNext]_vars

\* Concurrent upsert_document calls with every combination of fields.
DocNext == \E t \in Workers : DocStep(t, DocumentArgs)

SpecDoc == Init /\ [][DocNext]_vars

\* Non-overlapping upsert_document calls with every combination of fields.
DocSeqNext == \E t \in Workers : Alone(t) /\ DocStep(t, DocumentArgs)

SpecDocSeq == Init /\ [][DocSeqNext]_vars

\* Non-overlapping helper calls, ended by one graph query.
QueryNext ==
    \/ ~expanded.built /\ SeqNext
    \/ ExpandGraph

SpecQuery == Init /\ [][QueryNext]_vars

\* A graph query and a build_graph call, each at any moment among the steps
\* of concurrent ingestion workers.
QueryAmidNext ==
    \/ Next /\ ncalls' <= QueryCalls
    \/ ExpandSelectDocuments
    \/ ExpandSelectEntities
    \/ ExpandSelectPairs
    \/ BuildGraph

SpecQueryAmid == Init /\ [][QueryAmidNext]_vars

\* One graph query on each store that ingestion can leave.
ExpandSpecInit == StoreInit /\ GraphIdle /\ CrawlerIdle /\ JobsIdle /\ PipeIdle

SpecExpand == ExpandSpecInit /\ [][ExpandGraph]_vars

\* A seeded graph query on a store that ingestion can leave, or a seeded
\* build_graph on a corpus, under the widest caps.
SeedsSpecInit ==
    /\ \/ SeedStoreInit /\ GraphIdle
       \/ DbInit /\ corpus \in CorporaUpTo(MaxSeedEnts)
                 /\ cfg = [MAX_NODES |-> MaxCap, MAX_EDGES |-> MaxCap,
                           RELATED_DOC_MIN_SHARED |-> 1]
                 /\ graph = NoGraph /\ expanded = NoGraph
    /\ CrawlerIdle /\ JobsIdle /\ PipeIdle

SpecSeeds == SeedsSpecInit /\ [][BuildGraphSeeded \/ ExpandGraphSeeded]_vars

\* _score_entity_for_doc on every entry within the bounds.
SpecScore == Init /\ [][ScoreEntity]_vars

\* build_graph applied to every corpus and configuration within the bounds.
GraphSpecInit == DbInit /\ GraphInit /\ CrawlerIdle /\ JobsIdle /\ PipeIdle

\* The jobs of a service started with or without Redis.
JobsSpecInit == DbInit /\ GraphIdle /\ CrawlerIdle /\ JobsInit /\ PipeIdle

SpecJobs == JobsSpecInit /\ [][JobsNext]_vars

\* The crawler functions against every behaviour of the network.
SpecCrawler == Init /\ [][CrawlerNext]_vars

SpecGraph == GraphSpecInit /\ [][BuildGraph]_vars

\* hydrate_items_with_text on every list of items, against every behaviour
\* of the network.
SpecHydrate == Init /\ [][HydrateNext]_vars

\* Successive calls of _ingest_single against every behaviour of its
\* collaborators.
SpecIngest == Init /\ [][IngestNext]_vars

(***************************************************************************)
(* Properties of the store helpers.                                        *)
(***************************************************************************)
OneRowPerUrl == \A d1, d2 \in documents : d1.url = d2.url => d1 = d2

OneRowPerName == \A e1, e2 \in entities : e1.name = e2.name => e1 = e2

SameTriple(l1, l2) ==
    l1.doc_id = l2.doc_id /\ l1.ent_id = l2.ent_id /\ l1.relation = l2.relation

OneRowPerTriple == \A l1, l2 \in doc_entities : SameTriple(l1, l2) => l1 = l2

\* Worker t's call of upsert_document returns or raises in this step.
DocumentCallEnds(t) == th[t].pc = "ud_write" /\ th'[t].pc = "done"

\* What one finished upsert_document(url=u, ...) call has to have done: with
\* no row for u it added one and returned its id; with a row for u it
\* returned that row's id, added no row, left every other row alone and
\* assigned to the row the fields of some argument list.
DocumentCallUpserts(t) ==
    LET u == th[t].args.url
        old == {d \in documents : d.url = u}
    IN  /\ th'[t].err = None
        /\ IF old = {}
           THEN /\ \E d \in documents' : d.url = u /\ d.id = th'[t].ret
                /\ Cardinality(documents') = Cardinality(documents) + 1
                /\ documents \subseteq documents'
           ELSE /\ \A d \in old : d.id = th'[t].ret
                /\ {d.id : d \in documents'} = {d.id : d \in documents}
                /\ \A d \in documents : d.url # u => d \in documents'
                /\ \E a \in DocumentArgs :
                      documents' = {IF d.url = u THEN UpdatedDocument(d, a) ELSE d
                                      : d \in documents}

\* C1: under non-overlapping upsert_document calls the store never holds two
\* Document rows with one URL; the first call for a URL creates its row, and
\* every later call for it returns the id of that row and changes the row's
\* fields without adding a row.
C1_UpsertByUrl ==
    /\ []OneRowPerUrl
    /\ [][\A t \in Workers : DocumentCallEnds(t) => DocumentCallUpserts(t)]_vars

\* Two calls were made for one URL; the second returned the id of the first
\* call's row, and no second id was ever drawn.
C1_SecondCallUpdated ==
    /\ ncalls = 2
    /\ \A t \in Workers : CanCall(t)
    /\ Cardinality(documents) = 1
    /\ next_doc_id = 2
    /\ \E t \in Workers : th[t].op = "upsert_document" /\ th[t].ret = 1
    /\ \E d \in documents : d.title = "T1" /\ d.text = "Y1"

\* C2: when workers call upsert_document concurrently for one URL, under every
\* interleaving each call ends without an error and returns the id of the one
\* row that holds its URL.
C2_ConcurrentUpsertByUrl ==
    [][\A t \in Workers :
          DocumentCallEnds(t) =>
             /\ th'[t].err = None
             /\ \E d \in documents' : d.url = th[t].args.url /\ d.id = th'[t].ret
             /\ OneRowPerUrl']_vars

\* C3: names that are equal when upper-cased resolve to one Entity row, so no
\* two Entity rows have names that are equal when upper-cased.
C3_OneRowPerUpperName ==
    \A e1, e2 \in entities : Upper(e1.name) = Upper(e2.name) => e1.id = e2.id

\* Worker t's call of link_doc_entity returns or raises in this step.
LinkCallEnds(t) == th[t].pc = "lk_write" /\ th'[t].pc = "done"

Linked(doc_id, ent_id, rel) ==
    \E l \in doc_entities : l.doc_id = doc_id /\ l.ent_id = ent_id /\ l.relation = rel

\* C4: under non-overlapping calls, link_doc_entity for a triple that is
\* already linked returns without an error and leaves doc_entities unchanged,
\* and no triple is ever stored twice.
C4_LinkIdempotent ==
    /\ []OneRowPerTriple
    /\ [][\A t \in Workers :
             (LinkCallEnds(t)
                /\ Linked(th[t].args.doc_id, th[t].args.ent_id, th[t].args.rel))
             => (doc_entities' = doc_entities /\ th'[t].err = None)]_vars

\* Both workers have called link_doc_entity without an error, one INSERT was
\* attempted, and one link is stored: the later call was a no-op.
C4_RelinkedOnce ==
    /\ \A t \in Workers :
          th[t].pc = "done" /\ th[t].op = "link_doc_entity" /\ th[t].err = None
    /\ link_seq = 2
    /\ Cardinality(doc_entities) = 1

\* C5: when workers upsert one not-yet-stored entity name, or create one link
\* triple, concurrently, then under every interleaving the INSERT branch of
\* upsert_entity ends without an error, so does the INSERT branch of
\* link_doc_entity for a stored document and entity, and one row per name and
\* per triple is stored.
C5_ConcurrentEntityAndLink ==
    /\ [](OneRowPerName /\ OneRowPerTriple)
    /\ [][\A t \in Workers :
             /\ (th[t].pc = "ue_write" /\ th[t].found = NoId /\ th'[t].pc # "ue_write")
                => th'[t].err = None
             /\ (LinkCallEnds(t) /\ th[t].found = NoId
                   /\ (\E d \in documents : d.id = th[t].args.doc_id)
                   /\ (\E e \in entities : e.id = th[t].args.ent_id))
                => th'[t].err = None]_vars

(***************************************************************************)
(* Properties of the graph builders.                                       *)
(***************************************************************************)
\* Every edge of g runs between two nodes of g.
EdgesBetweenNodes(g) ==
    \A k \in DOMAIN g.edges :
        g.edges[k].source \in NodeIds(g.nodes) /\ g.edges[k].target \in NodeIds(g.nodes)

\* C6: for every corpus and every cap configuration, each edge of the graph
\* that build_graph returns has its source id and its target id among the
\* ids of the returned nodes, with or without the node trim and the edge trim.
C6_BuildEdgesBetweenNodes == graph.built => EdgesBetweenNodes(graph)

\* Both trims ran: the node trim removed the target of some edge, and what was
\* left was still more than MAX_EDGES edges.
C6_BothTrimsRan ==
    LET u == graph.before IN
    /\ graph.built
    /\ Len(u.nodes) > MAX_NODES
    /\ \E k \in DOMAIN u.edges : u.edges[k].target \notin NodeIds(graph.nodes)
    /\ Len(KeepEdges(u.nodes, graph.nodes, u.edges)) > MAX_EDGES
    /\ graph.edges # <<>>

\* C7: for every store content, each edge that expand_graph returns has a
\* source id and a target id that both occur among the ids of the nodes of the
\* same call, also when a query is cut by its LIMIT.
C7_ExpandEdgesBetweenNodes == expanded.built => EdgesBetweenNodes(expanded)

\* C8: for every corpus, build_graph returns at most MAX_NODES nodes, also
\* when the candidate documents alone are more than MAX_NODES.
C8_NodeCap == graph.built => Len(graph.nodes) <= MAX_NODES

\* C9: for every corpus, build_graph returns at most MAX_EDGES edges, also
\* when the about/related edges alone are more than MAX_EDGES.
C9_EdgeCap == graph.built => Len(graph.edges) <= MAX_EDGES

\* The about/related edges alone were more than MAX_EDGES before the edge trim.
C9_AboutRelatedOverCap ==
    LET u == graph.before
        edges == KeepEdges(u.nodes, graph.nodes, u.edges)
    IN  /\ graph.built
        /\ Len(SelectSeq(edges, LAMBDA e : e.label \in {"about", "related"})) > MAX_EDGES
        /\ Len(graph.edges) = MAX_EDGES

\* C10: the node trim of build_graph removes only entity nodes, and every
\* candidate document has its doc:<id> node in the result whenever the
\* candidate documents are at most MAX_NODES.
C10_DocNodesKept ==
    graph.built =>
        LET u == graph.before IN
        /\ \A k \in DOMAIN u.nodes :
              u.nodes[k].id \notin NodeIds(graph.nodes) => u.nodes[k].type = "entity"
        /\ Len(corpus.docs) <= MAX_NODES =>
              \A i \in DOMAIN corpus.docs :
                  DocNodeId(corpus.docs[i].doc_id) \in NodeIds(graph.nodes)

\* The node trim ran on a corpus of at most MAX_NODES documents and removed
\* a node.
C10_TrimRemovedEntity ==
    LET u == graph.before IN
    /\ graph.built
    /\ Len(corpus.docs) >= 2
    /\ Len(corpus.docs) <= MAX_NODES
    /\ Len(u.nodes) > MAX_NODES
    /\ Len(graph.nodes) < Len(u.nodes)

\* The ids of the entities kept for the document at position i of the corpus.
KeptEntityIds(per_doc, i) == {per_doc[i][j].id : j \in DOMAIN per_doc[i]}

\* Number of "related" edges of edges between documents a and b.
RelatedBetween(edges, a, b) ==
    Cardinality({k \in DOMAIN edges :
        /\ edges[k].label = "related"
        /\ {edges[k].source, edges[k].target} = {DocNodeId(a), DocNodeId(b)}})

\* C11: for every pair of distinct candidate documents, the edges built before
\* trimming hold exactly one "related" edge between them when the distinct
\* kept entities linked to both are at least RELATED_DOC_MIN_SHARED, and none
\* otherwise.
C11_RelatedIffShared ==
    graph.built =>
        LET u == graph.before
            docs == corpus.docs
        IN  \A i, j \in DOMAIN docs :
                (i < j /\ docs[i].doc_id # docs[j].doc_id) =>
                    RelatedBetween(u.edges, docs[i].doc_id, docs[j].doc_id) =
                        IF Cardinality(KeptEntityIds(u.per_doc, i)
                                          \cap KeptEntityIds(u.per_doc, j))
                              >= RELATED_DOC_MIN_SHARED
                        THEN 1 ELSE 0

\* Number of edges of edges from document d to node id with one label.
EdgesWith(edges, d, id, label) ==
    Cardinality({k \in DOMAIN edges :
        edges[k].source = DocNodeId(d) /\ edges[k].target = id /\ edges[k].label = label})

\* Number of kept entries of the document at position i with one id and one
\* value of in_title.
EntriesWith(per_doc, i, id, in_title) ==
    Cardinality({j \in DOMAIN per_doc[i] :
        per_doc[i][j].id = id /\ per_doc[i][j].in_title = in_title})

\* C12: every kept entry flagged in_title, whatever its type and count, gets
\* an "about" edge from its document and no "mentions" edge: per document and
\* entity id the "about" edges are at least the in_title entries, and the
\* "mentions" edges at most the other entries.
C12_TitleEntityIsAbout ==
    graph.built =>
        LET u == graph.before
            docs == corpus.docs
        IN  \A i \in DOMAIN docs : \A id \in KeptEntityIds(u.per_doc, i) :
                /\ EdgesWith(u.edges, docs[i].doc_id, id, "about")
                      >= EntriesWith(u.per_doc, i, id, TRUE)
                /\ EdgesWith(u.edges, docs[i].doc_id, id, "mentions")
                      <= EntriesWith(u.per_doc, i, id, FALSE)

\* A document has an in_title entry of a type that is not preferred and of
\* count below 1, and a "mentions" edge to another entry beside it.
C12_TitleEntityLowScore ==
    /\ graph.built
    /\ LET u == graph.before IN
       \E i \in DOMAIN corpus.docs : \E j, k \in DOMAIN u.per_doc[i] :
          LET e == u.per_doc[i][j]
              o == u.per_doc[i][k]
          IN  /\ e.in_title
              /\ UpperType(e.type) \notin PREFERRED_ENTITY_TYPES
              /\ e.count < 1
              /\ ~o.in_title
              /\ EdgesWith(u.edges, corpus.docs[i].doc_id, o.id, "mentions") > 0

(***************************************************************************)
(* Properties of the crawler.                                              *)
(***************************************************************************)
TopicDone == crawl.op = "fetch_topic" /\ crawl.pc = "done"

\* The providers configured for a call, in declared order.
Configured(forced) ==
    IF forced = GOOGLE THEN <<GOOGLE>>
    ELSE IF forced = BING THEN <<BING>>
    ELSE <<GOOGLE, BING>>

\* C16: fetch_topic never raises; when every configured provider fails or
\* gives no item it returns no items, source_used None and one attempt per
\* configured provider (two by default), each with a diagnostic.
C16_TopicNeverRaises ==
    TopicDone =>
        /\ ~crawl.raised
        /\ crawl.ret.source_used = None =>
              /\ crawl.ret.items = <<>>
              /\ Len(crawl.ret.attempts) = (IF crawl.forced = "" THEN 2 ELSE 1)
              /\ \A k \in DOMAIN crawl.ret.attempts :
                    /\ crawl.ret.attempts[k].source = Configured(crawl.forced)[k]
                    /\ crawl.ret.attempts[k].diag # <<>>
        /\ (\A k \in DOMAIN crawl.attempts : crawl.attempts[k].count = 0) =>
              crawl.ret.source_used = None

\* Both default providers failed in both strategies, and the call returned.
C16_BothProvidersFailed ==
    /\ TopicDone
    /\ crawl.forced = ""
    /\ Len(crawl.ret.attempts) = 2
    /\ \A k \in DOMAIN crawl.ret.attempts : crawl.ret.attempts[k].diag[1] = "both failed"

\* C17: fetch_topic tries the providers in declared order and stops at the
\* first that gives an item: the attempts are the prefix of the provider list
\* up to that provider, no later provider is contacted, source_used is its
\* name and the items returned are its items.
C17_StopsAtFirstProvider ==
    TopicDone =>
        LET attempts == crawl.ret.attempts
            n == Len(attempts)
        IN  /\ n <= Len(Configured(crawl.forced))
            /\ \A k \in 1..n : attempts[k].source = Configured(crawl.forced)[k]
            /\ \A k \in 1..n : k < n => attempts[k].count = 0
            /\ \A k \in DOMAIN crawl.log :
                  \E a \in 1..n : attempts[a].source = crawl.log[k][1]
            /\ (n > 0 /\ attempts[n].count > 0) =>
                  /\ crawl.ret.source_used = attempts[n].source
                  /\ \A i \in DOMAIN crawl.ret.items :
                        crawl.ret.items[i].url[1] = attempts[n].source
            /\ crawl.ret.source_used # None => attempts[n].count > 0

\* The first provider gave items while a second one was configured.
C17_FirstProviderGaveItems ==
    /\ TopicDone
    /\ crawl.forced = ""
    /\ crawl.ret.source_used = GOOGLE
    /\ crawl.ret.items # <<>>

\* C18: for every max_items >= 0, 0 included, fetch_topic returns at most
\* min(max_items, MAX_ITEMS_CAP) items.
C18_ItemsWithinRequested ==
    TopicDone => Len(crawl.ret.items) <= Min2(crawl.max_items, MAX_ITEMS_CAP)

\* C19: fetch_rss never raises; it returns the items of the direct strategy
\* when that succeeds, tries the feedparser strategy exactly when the direct
\* one raised, and returns no items and a diagnostic when both raised.
C19_RssNeverRaises ==
    /\ ~crawl.raised
    /\ crawl.pc = "rss_return" =>
          /\ crawl.direct = "ok" =>
                /\ crawl.fallback = "none"
                /\ crawl.rss_diag[1] = "requests+parse ok"
                /\ \A i \in DOMAIN crawl.rss_items : crawl.rss_items[i].url[2] = "requests"
          /\ (crawl.direct = "raised") <=> (crawl.fallback # "none")
          /\ (crawl.fallback # "none") <=>
                (crawl.log[Len(crawl.log)] = <<crawl.rss_url, "feedparser">>)
          /\ crawl.fallback = "ok" =>
                \A i \in DOMAIN crawl.rss_items : crawl.rss_items[i].url[2] = "feedparser"
          /\ crawl.fallback = "raised" =>
                crawl.rss_items = <<>> /\ crawl.rss_diag # <<>>

\* Both strategies raised and fetch_rss returned to its caller.
C19_BothStrategiesRaised ==
    /\ crawl.op = "fetch_rss"
    /\ crawl.pc = "done"
    /\ crawl.direct = "raised"
    /\ crawl.fallback = "raised"
    /\ crawl.ret.items = <<>>
    /\ crawl.ret.diag # <<>>

UrlDone == crawl.op = "fetch_url" /\ crawl.pc = "done"

\* C20: fetch_url never raises; for every outcome of the request it returns a
\* record with a title and a text, and the text is empty whenever the request
\* failed or the answer was not HTML.
C20_UrlNeverRaises ==
    UrlDone =>
        /\ ~crawl.raised
        /\ crawl.ret.has_text
        /\ crawl.ret.title # None
        /\ crawl.ret.text # None
        /\ (crawl.request = "raised" \/ ~crawl.page.html) => crawl.ret.text = ""

\* A 200 answer that is not HTML, whose body would have given a text.
C20_NotHtmlAnswer ==
    /\ UrlDone
    /\ crawl.request = "ok"
    /\ crawl.page.status = 200
    /\ ~crawl.page.html
    /\ _extract_text(crawl.page) # ""
    /\ crawl.ret.text = ""

(***************************************************************************)
(* Properties of the ingestion jobs.                                       *)
(***************************************************************************)
\* C13: every submitted job is eventually reported by the status query as
\* done or error, also when writes to Redis fail. Once the worker has
\* finished nothing writes the record again, so a query served after that,
\* with Redis reachable and no record expired or flushed, has to answer done
\* or error.
C13_FinishedJobReported ==
    \A j \in JobIds :
        (reply[j].finished /\ reply[j].reachable /\ ~reply[j].gone) =>
            reply[j].status \in {"done", "error"}

\* The positions of the batch whose _ingest_single returned, in order.
Succeeded(j) == SelectSeq([k \in 1..job[j].total |-> k], LAMBDA k : k \notin job[j].failed)

\* C14: in a topic or RSS job, when _ingest_single raises for an item the
\* remaining items are still processed in order and the job ends with
\* status done, never error; the failing item is only missing from the
\* ingested list.
C14_ItemFailureIsNotFatal ==
    \A j \in JobIds :
        (job[j].kind \in {"topic", "rss"} /\ job[j].pc = "finished") =>
            /\ job[j].processed = [k \in 1..job[j].total |-> k]
            /\ job[j].total = Min2(job[j].nitems, BatchCap(job[j].kind))
            /\ job[j].last.status = "done"
            /\ ~job[j].last.error
            /\ job[j].last.ingested = Succeeded(j)

\* An RSS job finished whose first item raised and whose second item was
\* ingested.
C14_FirstItemFailed ==
    \E j \in JobIds :
        /\ job[j].kind = "rss"
        /\ job[j].pc = "finished"
        /\ job[j].failed = {1}
        /\ job[j].last.ingested = <<2>>

\* C15: once a submission has returned the job id, a status query served
\* while Redis is reachable never answers job-not-found as long as no record
\* of the job has expired or been flushed, also when the Redis write of the
\* queued record failed.
C15_SubmittedJobIsFound ==
    \A j \in JobIds :
        (reply[j].submitted /\ reply[j].reachable /\ ~reply[j].gone) =>
            reply[j].status # "404"

(***************************************************************************)
(* Properties of hydrate_items_with_text.                                  *)
(***************************************************************************)
\* The item at position k is the first of its url, and has one.
FirstOfUrl(items, k) ==
    items[k].url # "" /\ \A m \in 1..(k - 1) : items[m].url # items[k].url

\* C21: on return the saved list has no two entries with the same url and no
\* entry without url; an item is fetched exactly when it is the first of its
\* url, and every other item is skipped and counted in dup.
C21_FirstOccurrenceWins ==
    hydration.pc = "done" =>
        LET h == hydration
            saved == h.ret.saved
        IN  /\ \A a, b \in DOMAIN saved : a # b => saved[a].url # saved[b].url
            /\ \A a \in DOMAIN saved : saved[a].url # ""
            /\ \A k \in DOMAIN h.items : h.done[k].fetched <=> FirstOfUrl(h.items, k)
            /\ \A k \in DOMAIN h.items : ~h.done[k].fetched => ~h.done[k].saved
            /\ h.ret.diag.dup = Cardinality({k \in DOMAIN h.items : ~h.done[k].fetched})

\* A url came twice: its first item was fetched and not saved, its second
\* item carried a summary long enough to be saved and was skipped.
C21_LaterOccurrenceSkipped ==
    /\ hydration.pc = "done"
    /\ Len(hydration.items) = 2
    /\ hydration.items[1].url = hydration.items[2].url
    /\ hydration.done[1].fetched /\ ~hydration.done[1].saved
    /\ Len(_clean(hydration.items[2].summary)) >= FEED_TXT_MIN
    /\ hydration.ret.diag.dup = 1

\* The item at position k was fetched and its article text is shorter than
\* MIN_CONTENT_LEN.
ShortArticle(h, k) == h.done[k].fetched /\ Len(h.done[k].article) < MIN_CONTENT_LEN

\* C22: on return, every fetched item with an article text shorter than
\* MIN_CONTENT_LEN and a cleaned summary of at least the floor has an entry in
\* the saved list, whose text is the cleaned summary and not the article text.
C22_SummaryFallback ==
    hydration.pc = "done" =>
        LET h == hydration IN
        \A k \in DOMAIN h.items :
            (ShortArticle(h, k) /\ Len(_clean(h.items[k].summary)) >= FEED_TXT_MIN) =>
                \E a \in DOMAIN h.ret.saved :
                    /\ h.ret.saved[a].url = h.items[k].url
                    /\ h.ret.saved[a].text = _clean(h.items[k].summary)
                    /\ h.ret.saved[a].text # h.done[k].article

\* A short but non-empty article text was replaced by the summary.
C22_ShortArticleLongSummary ==
    /\ hydration.pc = "done"
    /\ \E k \in DOMAIN hydration.items :
          /\ ShortArticle(hydration, k)
          /\ hydration.done[k].article # <<>>
          /\ Len(_clean(hydration.items[k].summary)) >= FEED_TXT_MIN
          /\ hydration.done[k].saved

\* C23: on return, no fetched item with an article text shorter than
\* MIN_CONTENT_LEN and a cleaned summary shorter than the floor is in the
\* saved list.
C23_ShortItemsUnsaved ==
    hydration.pc = "done" =>
        LET h == hydration IN
        \A k \in DOMAIN h.items :
            (ShortArticle(h, k) /\ Len(_clean(h.items[k].summary)) < FEED_TXT_MIN) =>
                ~h.done[k].saved

(***************************************************************************)
(* Properties of _ingest_single.                                           *)
(***************************************************************************)
\* The call of _ingest_single has ended, by return or by exception.
IngestEnded == ingest.pc \in {"returned", "raised"}

\* The documents row of the url of the call.
IngestedRows == {d \in documents : d.url = ingest.url}

\* C24: whatever fetch_url gives, no Document row holds an empty text: none is
\* created with one, and none has its text overwritten by one.
C24_NoEmptyTextStored == \A d \in documents : d.text # ""

\* C25: a call whose document upsert succeeded, whose extractor returned a
\* non-empty list and that met no store failure returns the item with every
\* extracted name, and the store holds an Entity row and a MENTION link to
\* the document for each of them.
C25_EntitiesAndLinksStored ==
    (IngestEnded /\ ingest.doc_id # NoId /\ ingest.ents # <<>>
        /\ ingest.err # "SQLAlchemyError") =>
        /\ ingest.pc = "returned"
        /\ ingest.ret.entities = [k \in DOMAIN ingest.ents |-> ingest.ents[k].name]
        /\ \A k \in DOMAIN ingest.ents :
              \E e \in entities :
                  /\ e.name = ingest.ents[k].name
                  /\ \E l \in doc_entities :
                        /\ l.doc_id = ingest.doc_id
                        /\ l.ent_id = e.id
                        /\ l.relation = MENTION

\* C26: a call whose extractor raised, and whose commit and embedding did not
\* fail, returns the item with an empty entity list; the document row of the
\* url holds the text of the call, and the entities and links are those of
\* before the call.
C26_ExtractionFailureIsNotFatal ==
    (IngestEnded /\ ingest.ner_raised /\ ingest.err \notin {"SQLAlchemyError", "EmbedError"}) =>
        /\ ingest.pc = "returned"
        /\ ingest.ret.entities = <<>>
        /\ \E d \in IngestedRows : d.id = ingest.ret.doc_id /\ d.text = ingest.text
        /\ entities = ingest.entities_before
        /\ doc_entities = ingest.links_before

\* The extractor raised for an item with a text, and the item was returned.
C26_ReturnedAfterNerRaised ==
    /\ ingest.pc = "returned"
    /\ ingest.ner_raised
    /\ ingest.text # ""

\* C27: a call that persisted its document and passed the entity step returns
\* the item also when embed or index_document raised.
C27_EmbedOrIndexFailureIsNotFatal ==
    (IngestEnded /\ (ingest.embed_raised \/ ingest.index_raised)) =>
        ingest.pc = "returned"

(***************************************************************************)
(* Properties of the graph queries as a whole.                             *)
(***************************************************************************)
\* C28: every step of expand_graph and of build_graph leaves the rows of
\* documents, entities and doc_entities as they are, at whatever point of the
\* concurrent ingestion calls it is taken.
C28_QueryLeavesStore ==
    [][(expanded' # expanded \/ graph' # graph) =>
          UNCHANGED <<documents, entities, doc_entities>>]_vars

\* A query returned no node although the store holds a document that is in
\* every window: the document was committed between two of its SELECTs.
C28_IngestedDuringQuery ==
    /\ expanded.built
    /\ expanded.nodes = <<>>
    /\ \E d \in documents : \A since \in Sinces : InWindow(d, since)

\* C29: no two nodes returned by expand_graph share an id.
C29_ExpandNodeIdsUnique ==
    expanded.built =>
        \A i, j \in DOMAIN expanded.nodes :
            expanded.nodes[i].id = expanded.nodes[j].id => i = j

(***************************************************************************)
(* Properties of the score.                                                *)
(***************************************************************************)
\* min(0.1 x count, 0.7) in tenths, a negative count taken as 0.
CountPart(count) == IF count < 0 THEN 0 ELSE IF count > 7 THEN 7 ELSE count

\* C30: the score is 1.0 for the title plus 0.5 for a preferred type plus
\* min(0.1 x count, 0.7), lies in 0..22 tenths, and the edge is labelled
\* "about" exactly when the score is at least 1.0, "mentions" otherwise.
C30_ScoreAndLabel ==
    scored.pc = "scored" =>
        LET e == scored.ent
            title_part == IF e.in_title THEN 10 ELSE 0
            type_part == IF UpperType(e.type) \in PREFERRED_ENTITY_TYPES THEN 5 ELSE 0
        IN  /\ scored.score = title_part + type_part + CountPart(e.count)
            /\ scored.score \in 0..22
            /\ scored.label = IF scored.score >= 10 THEN "about" ELSE "mentions"

\* An entity outside the title reaches exactly 1.0 (preferred type, five
\* mentions) and its edge is labelled "about".
C30_AboutAtThreshold ==
    /\ scored.pc = "scored"
    /\ ~scored.ent.in_title
    /\ scored.score = 10
    /\ scored.label = "about"

(***************************************************************************)
(* Properties of the trims of build_graph.                                 *)
(***************************************************************************)
\* Entity nodes of a node list, and document nodes.
EntityNodes(nodes) == SelectSeq(nodes, LAMBDA n : n.type = "entity")
DocNodes(nodes) == SelectSeq(nodes, LAMBDA n : n.type = "doc")

\* Global frequency of an entity node: the kept entries, over all candidate
\* documents, that carry its name in any letter case.
GlobalFrequency(per_doc, node) ==
    Cardinality({p \in {<<i, j>> : i \in DOMAIN per_doc, j \in 1..MaxEnts} :
                    /\ p[2] \in DOMAIN per_doc[p[1]]
                    /\ Upper(per_doc[p[1]][p[2]].name) = Upper(node.label)})

AboutRelated(edges) == SelectSeq(edges, LAMBDA e : e.label \in {"about", "related"})
Mentions(edges) == SelectSeq(edges, LAMBDA e : e.label = "mentions")

\* C32: when the edges left by the node trim are more than MAX_EDGES, the
\* result has exactly MAX_EDGES edges, and it holds a "mentions" edge only
\* if it holds every about/related edge.
C32_AboutRelatedFirst ==
    graph.built =>
        LET u == graph.before
            edges == KeepEdges(u.nodes, graph.nodes, u.edges)
        IN  Len(edges) > MAX_EDGES =>
              /\ Len(graph.edges) = MAX_EDGES
              /\ Mentions(graph.edges) # <<>> =>
                    AboutRelated(graph.edges) = AboutRelated(edges)

\* The edge trim dropped a "mentions" edge that came before an about/related
\* edge it kept, and kept another "mentions" edge.
C32_MentionsGaveWay ==
    /\ graph.built
    /\ LET u == graph.before
           edges == KeepEdges(u.nodes, graph.nodes, u.edges)
       IN  /\ Len(edges) > MAX_EDGES
           /\ Mentions(graph.edges) # <<>>
           /\ Len(Mentions(graph.edges)) < Len(Mentions(edges))
           /\ \E k \in DOMAIN edges :
                 /\ k > MAX_EDGES
                 /\ edges[k].label \in {"about", "related"}
                 /\ edges[k] \in SeqRange(graph.edges)

(***************************************************************************)
(* Properties of the documents query of expand_graph.                      *)
(***************************************************************************)
\* The stored documents behind the document nodes of a result.
ReturnedDocuments(g) ==
    {d \in documents : \E k \in DOMAIN g.nodes :
        g.nodes[k].type = "doc" /\ g.nodes[k].id = DocNodeId(d.id)}

\* C33: every document node of expand_graph belongs to a stored document with
\* a publish timestamp that is not null and not before since; the document
\* nodes are at most the limit of the query, and when more documents qualify
\* they are as many as the limit and none is older than a qualifying document
\* left out.
C33_NewestDocumentsInWindow ==
    expanded.built =>
        LET doc_nodes == SelectSeq(expanded.nodes, LAMBDA n : n.type = "doc")
            returned == ReturnedDocuments(expanded)
            qualify == {d \in documents :
                           d.published_at # NoTime /\ d.published_at >= expanded.since}
        IN  /\ \A k \in DOMAIN doc_nodes : \E d \in qualify : doc_nodes[k].id = DocNodeId(d.id)
            /\ Len(doc_nodes) <= DOC_LIMIT
            /\ Cardinality(returned) = Len(doc_nodes)
            /\ Cardinality(qualify) > DOC_LIMIT =>
                  /\ Len(doc_nodes) = DOC_LIMIT
                  /\ \A d \in returned : \A o \in qualify \ returned :
                        d.published_at >= o.published_at

\* More documents qualified than the limit, beside one without a timestamp
\* and one older than since, and the query returned as many as the limit.
C33_OlderDocumentCutOff ==
    /\ expanded.built
    /\ Cardinality({d \in documents : InWindow(d, expanded.since)}) > DOC_LIMIT
    /\ \E d \in documents : d.published_at = NoTime
    /\ \E d \in documents : d.published_at # NoTime /\ d.published_at < expanded.since
    /\ Cardinality(ReturnedDocuments(expanded)) = DOC_LIMIT

(***************************************************************************)
(* Properties of the blacklist in build_graph.                             *)
(***************************************************************************)
\* The entries that the data layer gave for the listed document at position i.
RawEntries(i) == corpus.ents[corpus.docs[i].doc_id]

\* The entry has a name and its trimmed name, upper-cased, is blacklisted.
Blacklisted(e) == Upper(Strip(e.name)) \in ENTITY_BLACKLIST

\* The entry has a name that is not blacklisted.
Admitted(e) == Strip(e.name) # <<>> /\ ~Blacklisted(e)

\* The node id under which an entry is filed.
FiledUnder(e) == IF e.id # NoNodeId THEN e.id ELSE EntNodeId(Upper(Strip(e.name)))

BlacklistedIds ==
    {FiledUnder(RawEntries(p[1])[p[2]]) :
        p \in {q \in {<<i, j>> : i \in DOMAIN corpus.docs, j \in 1..MaxEnts} :
                  q[2] \in DOMAIN RawEntries(q[1]) /\ Blacklisted(RawEntries(q[1])[q[2]])}}

\* The admitted entries of positions i and j of the listed documents that
\* are filed under one id, at two places of the lists.
SharedAdmitted(i, j) ==
    \E k \in DOMAIN RawEntries(i), l \in DOMAIN RawEntries(j) :
        /\ <<i, k>> # <<j, l>>
        /\ Admitted(RawEntries(i)[k])
        /\ Admitted(RawEntries(j)[l])
        /\ FiledUnder(RawEntries(i)[k]) = FiledUnder(RawEntries(j)[l])

\* C34: a blacklisted entity is no node and no edge endpoint, before and
\* after the trims; it is not counted into the global frequencies; and every
\* "related" edge rests on an entity that is not blacklisted.
C34_BlacklistedNowhere ==
    graph.built =>
        LET u == graph.before
            black == BlacklistedIds
        IN  /\ NodeIds(u.nodes) \cap black = {}
            /\ NodeIds(graph.nodes) \cap black = {}
            /\ \A k \in DOMAIN u.edges :
                  u.edges[k].source \notin black /\ u.edges[k].target \notin black
            /\ \A k \in DOMAIN graph.edges :
                  graph.edges[k].source \notin black /\ graph.edges[k].target \notin black
            /\ \A k \in DOMAIN u.counted : u.counted[k] \notin ENTITY_BLACKLIST
            /\ \A k \in DOMAIN u.edges :
                  u.edges[k].label = "related" =>
                      \E i, j \in DOMAIN corpus.docs :
                          /\ DocNodeId(corpus.docs[i].doc_id) = u.edges[k].source
                          /\ DocNodeId(corpus.docs[j].doc_id) = u.edges[k].target
                          /\ SharedAdmitted(i, j)

\* Two listed documents share a blacklisted entity and nothing else, and
\* build_graph returned no "related" edge.
C34_OnlyBlacklistedShared ==
    /\ graph.built
    /\ Len(corpus.docs) = 2
    /\ \A i \in DOMAIN corpus.docs :
          \E k \in DOMAIN RawEntries(i) : Blacklisted(RawEntries(i)[k])
    /\ \A k \in DOMAIN graph.before.edges : graph.before.edges[k].label # "related"
    /\ graph.nodes # <<>>

(***************************************************************************)
(* Properties of the progress and the status of a job.                     *)
(***************************************************************************)
\* C35: every record of a topic or RSS job that carries the counter has
\* done <= total; from one record with the counter to the next done never
\* decreases; the write after an item, returned or raised, carries one more
\* than the record before it; and the done record carries done = total.
C35_ProgressCounts ==
    [][\A j \in JobIds :
          (job'[j].kind \in {"topic", "rss"} /\ job'[j] # job[j]) =>
              LET old == job[j].last
                  new == job'[j].last
              IN  /\ new.done # NoCount => (new.done <= new.total /\ new.done >= 0)
                  /\ (old.done # NoCount /\ new.done # NoCount) => new.done >= old.done
                  /\ Len(job'[j].processed) = Len(job[j].processed) + 1 =>
                        (old.done # NoCount /\ new.done = old.done + 1)
                  /\ new.done # NoCount => new.done = Len(job'[j].processed)
                  /\ new.status = "done" => (new.done # NoCount /\ new.done = new.total)
      ]_vars

\* An RSS job wrote its done record with done = total = 2 after an item
\* that raised.
C35_CountedFailedItem ==
    \E j \in JobIds :
        /\ job[j].kind = "rss"
        /\ job[j].last.status = "done"
        /\ job[j].last.done = 2
        /\ job[j].last.total = 2
        /\ job[j].failed # {}

\* C36: once a status query has answered done or error for a job, no later
\* query for the job answers queued or running, whatever Redis reads and
\* writes failed in between.
C36_StatusNeverRegresses ==
    \A j \in JobIds :
        reply[j].final_before => reply[j].status \notin {"queued", "running"}

C38_CountersAddUp ==
    hydration.pc = "done" =>
        LET d == hydration.ret.diag IN
        /\ d.feed_items = Len(hydration.items)
        /\ d.feed_items = d.dup + d.fetched_ok + d.blocked
        /\ d.saved = Len(hydration.ret.saved)
        /\ d.saved <= d.feed_items - d.dup

\* A call returned after a blocked item that was saved from its summary and
\* a skipped item.
C38_BlockedSavedAndDuplicate ==
    /\ hydration.pc = "done"
    /\ hydration.ret.diag.blocked = 1
    /\ hydration.ret.diag.dup = 1
    /\ hydration.ret.diag.saved = 1
    /\ hydration.ret.diag.fetched_ok = 0

\* C39: for an entity outside the title the edge is labelled "about" exactly
\* when its type, in any letter case, is preferred and its count is at least
\* 5; outside the title and without a preferred type it is "mentions" for
\* every count.
C39_AboutNeedsTypeAndCount ==
    (scored.pc = "scored" /\ ~scored.ent.in_title) =>
        LET preferred == UpperType(scored.ent.type) \in PREFERRED_ENTITY_TYPES IN
        /\ scored.label = "about" <=> (preferred /\ scored.ent.count >= 5)
        /\ ~preferred => scored.label = "mentions"

\* An entity outside the title, of a type that is not preferred, with the
\* highest count explored, labelled "mentions".
C39_ManyMentionsNotAbout ==
    /\ scored.pc = "scored"
    /\ ~scored.ent.in_title
    /\ UpperType(scored.ent.type) \notin PREFERRED_ENTITY_TYPES
    /\ scored.ent.count = MaxScoreCount
    /\ scored.label = "mentions"

\* C40: the edges that build_graph returns hold no "related" edge from a
\* document to itself and no two edges with the same source, target and
\* label.
C40_NoSelfOrDuplicateEdge ==
    graph.built =>
        /\ \A k \in DOMAIN graph.edges :
              graph.edges[k].label = "related" =>
                  graph.edges[k].source # graph.edges[k].target
        /\ \A k, l \in DOMAIN graph.edges :
              graph.edges[k] = graph.edges[l] => k = l

====
